---- MODULE Spec2Model ----
(***************************************************************************)
(* A model of the in-memory WASI filesystem of browser_wasi_shim:          *)
(* the path parser (Path.from), the resolution engine                      *)
(* (Directory.resolve_path_from), the directory operations of              *)
(* OpenDirectory and the file operations of OpenFile.                      *)
(*                                                                         *)
(* Strings are sequences of UTF-16 code units (integers).  Inode objects   *)
(* live in the sequence `inodes`, in construction order, and a reference   *)
(* to an object is its index; the object's field ino is in `inos`.  A null *)
(* inode reference is 0, a null Path is the empty sequence and a non-null  *)
(* Path p is <<p>>.                                                        *)
(***************************************************************************)
EXTENDS Integers, Sequences, FiniteSets, TLC

VARIABLES
  inodes,   \* the heap of Inode objects, indexed by ino
  preopen,  \* the Directory of the PreopenDirectory
  fds,      \* the OpenFile handles the caller holds: [file, file_pos]
  input,    \* the string handed to Path.from by the parser's own driver
  last,     \* the last call: its name, arguments and results
  ncalls,   \* the number of calls that the caller still makes
  next_ino, \* the static counter Inode.next_ino
  inos,     \* the field ino of every Inode object, by its place in inodes
  console   \* the line-buffered ConsoleStdout and what its callback received

vars == <<inodes, preopen, fds, input, last, ncalls, next_ino, inos, console>>

----------------------------------------------------------------------------
(* Code units that the code tests for by value. *)
NUL == 0
DOT == 46
SLASH == 47

(* The symlink hop limit. *)
SYMLOOP_MAX == 40

(* Bounds of the model. *)
MaxInputLen == 7    \* longest string fed to Path.from in SpecPath
MaxCalls == 2       \* calls made in a behaviour of Spec
MaxOffset == 2      \* largest offset, length and size argument in Spec
MaxChain == 42      \* symlinks created in SpecChain
MaxFileCalls == 3   \* calls made in a behaviour of SpecFile
MaxShareCalls == 5  \* calls made in a behaviour of SpecShare
MaxCookie == 6      \* largest cookie passed to fd_readdir_single
MaxWrites == 3      \* writes made to the console in SpecConsole

----------------------------------------------------------------------------
(* String helpers: String.prototype.endsWith, startsWith, includes, split. *)
endsWith(s, c) == Len(s) > 0 /\ s[Len(s)] = c
startsWith(s, c) == Len(s) > 0 /\ s[1] = c
includes(s, c) == \E i \in 1..Len(s) : s[i] = c

(* split and join are computed by halves: the pieces on the two sides of   *)
(* the middle separator, and the joined halves of the parts.               *)
Slashes(s) == {k \in 1..Len(s) : s[k] = SLASH}

Middle(ks, half) == CHOOSE k \in ks : Cardinality({j \in ks : j < k}) = half

RECURSIVE split(_)
splitAt(s, i) == split(SubSeq(s, 1, i - 1)) \o split(SubSeq(s, i + 1, Len(s)))

split(s) ==
  IF ~includes(s, SLASH) THEN <<s>>
  ELSE splitAt(s, Middle(Slashes(s), Cardinality(Slashes(s)) \div 2))

RECURSIVE join(_)
join(parts) ==
  IF parts = <<>> THEN <<>>
  ELSE IF Len(parts) = 1 THEN parts[1]
  ELSE join(SubSeq(parts, 1, Len(parts) \div 2)) \o <<SLASH>>
         \o join(SubSeq(parts, Len(parts) \div 2 + 1, Len(parts)))

----------------------------------------------------------------------------
(* Path.from.  PopParent is `self.parts.pop() == undefined` on a "..";      *)
(* the variant before it does not fail on an empty parts array.            *)
PopParentUnchecked(parts) ==
  [ok |-> TRUE,
   parts |-> IF parts = <<>> THEN <<>> ELSE SubSeq(parts, 1, Len(parts) - 1)]

PopParent(parts) ==
  IF parts = <<>> THEN [ok |-> FALSE, parts |-> <<>>]
  ELSE [ok |-> TRUE, parts |-> SubSeq(parts, 1, Len(parts) - 1)]

(* One iteration of the loop of Path.from on the component comp, from the   *)
(* result r of the iterations before it; a failed loop has returned.       *)
PathStep(r, comp) ==
  IF r.ret # "SUCCESS" THEN r
  ELSE IF comp = <<>> \/ comp = <<DOT>> THEN r
  ELSE IF comp = <<DOT, DOT>>
    THEN IF ~PopParent(r.parts).ok THEN [ret |-> "NOTCAPABLE", parts |-> <<>>]
         ELSE [ret |-> "SUCCESS", parts |-> PopParent(r.parts).parts]
  ELSE [ret |-> "SUCCESS", parts |-> Append(r.parts, comp)]

(* The loop on comps from the parts array parts: the iterations on the     *)
(* second half of comps follow those on the first half.                    *)
RECURSIVE PathLoop(_, _)
PathRest(r, comps) ==
  IF r.ret # "SUCCESS" THEN r ELSE PathLoop(comps, r.parts)

PathLoop(comps, parts) ==
  IF comps = <<>> THEN [ret |-> "SUCCESS", parts |-> parts]
  ELSE IF Len(comps) = 1
    THEN PathStep([ret |-> "SUCCESS", parts |-> parts], comps[1])
  ELSE PathRest(PathLoop(SubSeq(comps, 1, Len(comps) \div 2), parts),
                SubSeq(comps, Len(comps) \div 2 + 1, Len(comps)))

(* The value Path.from returns after its loop. *)
PathResult(r, is_dir) ==
  IF r.ret # "SUCCESS" THEN [ret |-> r.ret, path |-> <<>>]
  ELSE [ret |-> "SUCCESS", path |-> <<[parts |-> r.parts, is_dir |-> is_dir]>>]

PathFrom(path) ==
  IF startsWith(path, SLASH) THEN [ret |-> "NOTCAPABLE", path |-> <<>>]
  ELSE IF includes(path, NUL) THEN [ret |-> "INVAL", path |-> <<>>]
  ELSE PathResult(PathLoop(split(path), <<>>), endsWith(path, SLASH))

----------------------------------------------------------------------------
(* Inode objects.  Every record has every field; a field that the class    *)
(* does not have keeps its empty value.                                    *)
NewFile(bytes, ro) ==
  [kind |-> "file", contents |-> <<>>, parent |-> 0, data |-> bytes,
   readonly |-> ro, target |-> <<>>]

NewDirectory(entries) ==
  [kind |-> "dir", contents |-> entries, parent |-> 0, data |-> <<>>,
   readonly |-> FALSE, target |-> <<>>]

NewSymlink(tgt) ==
  [kind |-> "symlink", contents |-> <<>>, parent |-> 0, data |-> <<>>,
   readonly |-> FALSE, target |-> tgt]

(* contents is a JavaScript Map: a sequence of [name, inode] in insertion  *)
(* order.  Map.get, Map.set (an existing key keeps its place), Map.delete. *)
(* Before Map.set, the variant that moves an existing key to the end.      *)
MapHas(m, k) == \E i \in 1..Len(m) : m[i].name = k

MapGet(m, k) ==
  IF MapHas(m, k) THEN m[CHOOSE i \in 1..Len(m) : m[i].name = k].inode ELSE 0

MapSetLast(m, k, v) ==
  Append(SelectSeq(m, LAMBDA e : e.name # k), [name |-> k, inode |-> v])

MapSet(m, k, v) ==
  IF MapHas(m, k)
    THEN [i \in 1..Len(m) |->
            IF m[i].name = k THEN [name |-> k, inode |-> v] ELSE m[i]]
    ELSE Append(m, [name |-> k, inode |-> v])

MapDelete(m, k) == SelectSeq(m, LAMBDA e : e.name # k)

(* Inode.issue_ino, `return Inode.next_ino++`, on the counter n: the ino    *)
(* issued and the counter afterwards.  The variant before it does not      *)
(* advance the counter.                                                    *)
issue_ino_stuck(n) == [ino |-> n, next_ino |-> n]

issue_ino(n) == [ino |-> n, next_ino |-> n + 1]

(* Inode.root_ino. *)
root_ino == 0

(* The Inode constructor run k times from the counter n: the inos that the *)
(* objects get, and the counter afterwards.                                *)
RECURSIVE IssuedInos(_, _)
IssuedInos(n, k) ==
  IF k = 0 THEN <<>>
  ELSE <<issue_ino(n).ino>> \o IssuedInos(issue_ino(n).next_ino, k - 1)

RECURSIVE CounterAfter(_, _)
CounterAfter(n, k) ==
  IF k = 0 THEN n ELSE CounterAfter(issue_ino(n).next_ino, k - 1)

(* A call that leaves the objects `heap` has constructed the objects that  *)
(* `heap` has more than `inodes`.                                          *)
Constructing(heap) ==
  /\ inos' = inos \o IssuedInos(next_ino, Len(heap) - Len(inodes))
  /\ next_ino' = CounterAfter(next_ino, Len(heap) - Len(inodes))

(* stat().filetype of an inode object. *)
filetype(i) == inodes[i].kind

Allocated == 1..Len(inodes)
Dirs == {i \in Allocated : inodes[i].kind = "dir"}
Files == {i \in Allocated : inodes[i].kind = "file"}
Symlinks == {i \in Allocated : inodes[i].kind = "symlink"}

----------------------------------------------------------------------------
(* Directory.partsToPathString and Directory.joinPaths. *)
partsToPathString(parts, isDir) ==
  IF parts = <<>> THEN <<>>
  ELSE IF isDir THEN join(parts) \o <<SLASH>> ELSE join(parts)

joinPaths(base, addition) ==
  IF Len(base) = 0 THEN addition
  ELSE IF Len(addition) = 0 THEN base
  ELSE IF endsWith(base, SLASH) THEN base \o addition
  ELSE base \o <<SLASH>> \o addition

(* The hop limit test `depth >= SYMLOOP_MAX`, preceded by the variant     *)
(* that lets one more hop through.                                         *)
HopLimitLate(depth) == depth > SYMLOOP_MAX

HopLimit(depth) == depth >= SYMLOOP_MAX

(* The string that a followed symlink's target and the rest of the path    *)
(* are re-parsed from.                                                     *)
SymlinkTargetPath(tgt, restStr, isDir) ==
  IF Len(restStr) > 0 THEN joinPaths(tgt, restStr)
  ELSE IF isDir /\ ~endsWith(tgt, SLASH) THEN Append(tgt, SLASH)
  ELSE tgt

(* Directory.resolve_path_from.  One activation either returns (Return)   *)
(* or calls resolve_path_from again (Recurse); resolve_run runs the        *)
(* activations one after the other.                                        *)
Returned(ret, entry) ==
  [done |-> TRUE, ret |-> ret, entry |-> entry, current |-> 0, parts |-> <<>>,
   isDir |-> FALSE, depth |-> 0]

Recurse(current, parts, isDir, depth) ==
  [done |-> FALSE, ret |-> "SUCCESS", entry |-> 0, current |-> current,
   parts |-> parts, isDir |-> isDir, depth |-> depth]

(* Lines 796-807: the re-parsed target, and the call on it. *)
resolve_target(c, t) ==
  IF t.path = <<>> THEN Returned(t.ret, 0)
  ELSE Recurse(c.current, t.path[1].parts, t.path[1].is_dir, c.depth + 1)

(* Lines 776-808: the child is a Symlink.  Before it, the variant whose    *)
(* shouldFollow leaves isDir out.                                          *)
resolve_symlink_follow_flag_only(c, followFinal, child, rest) ==
  IF ~(IF Len(rest) > 0 THEN TRUE ELSE followFinal) THEN
    IF Len(rest) > 0 \/ c.isDir THEN Returned("NOTDIR", 0)
    ELSE Returned("SUCCESS", child)
  ELSE IF HopLimit(c.depth) THEN Returned("LOOP", 0)
  ELSE resolve_target(c, PathFrom(SymlinkTargetPath(inodes[child].target,
                                    partsToPathString(rest, c.isDir), c.isDir)))

(* The variant that reports a missing entry at the hop limit. *)
resolve_symlink_noent_at_limit(c, followFinal, child, rest) ==
  IF ~(IF Len(rest) > 0 THEN TRUE ELSE followFinal \/ c.isDir) THEN
    IF Len(rest) > 0 \/ c.isDir THEN Returned("NOTDIR", 0)
    ELSE Returned("SUCCESS", child)
  ELSE IF HopLimit(c.depth) THEN Returned("NOENT", 0)
  ELSE resolve_target(c, PathFrom(SymlinkTargetPath(inodes[child].target,
                                    partsToPathString(rest, c.isDir), c.isDir)))

resolve_symlink(c, followFinal, child, rest) ==
  IF ~(IF Len(rest) > 0 THEN TRUE ELSE followFinal \/ c.isDir) THEN
    IF Len(rest) > 0 \/ c.isDir THEN Returned("NOTDIR", 0)
    ELSE Returned("SUCCESS", child)
  ELSE IF HopLimit(c.depth) THEN Returned("LOOP", 0)
  ELSE resolve_target(c, PathFrom(SymlinkTargetPath(inodes[child].target,
                                    partsToPathString(rest, c.isDir), c.isDir)))

(* Lines 766-821: the child that the first component names. *)
resolve_child(c, followFinal, child, rest) ==
  IF child = 0 THEN Returned("NOENT", 0)
  ELSE IF inodes[child].kind = "symlink"
    THEN resolve_symlink(c, followFinal, child, rest)
  ELSE IF ~(Len(rest) > 0) THEN
    IF c.isDir /\ filetype(child) # "dir" THEN Returned("NOTDIR", 0)
    ELSE Returned("SUCCESS", child)
  ELSE IF inodes[child].kind # "dir" THEN Returned("NOTDIR", 0)
  ELSE Recurse(child, rest, c.isDir, c.depth)

resolve_call(c, followFinal) ==
  IF c.parts = <<>> THEN
    IF c.isDir /\ filetype(c.current) # "dir" THEN Returned("NOTDIR", 0)
    ELSE Returned("SUCCESS", c.current)
  ELSE resolve_child(c, followFinal,
                     MapGet(inodes[c.current].contents, Head(c.parts)),
                     Tail(c.parts))

(* The next activation, none after the one that returned. *)
resolve_next(c, followFinal) ==
  IF c.done THEN c ELSE resolve_call(c, followFinal)

(* Four activations, fewer when one of them returns. *)
resolve_burst(c, followFinal) ==
  resolve_next(resolve_next(resolve_next(resolve_next(c, followFinal),
                                         followFinal), followFinal), followFinal)

RECURSIVE resolve_run(_, _)
resolve_run(c, followFinal) ==
  IF c.done THEN [ret |-> c.ret, entry |-> c.entry]
  ELSE resolve_run(resolve_burst(c, followFinal), followFinal)

resolve_path_from(current, parts, isDir, followFinal, depth) ==
  resolve_run(Recurse(current, parts, isDir, depth), followFinal)

(* Directory.resolve_path and Directory.get_entry_for_path. *)
resolve_path(dir, path, followFinal) ==
  resolve_path_from(dir, path.parts, path.is_dir, followFinal, 0)

(* A variant that resolves from the pre-open whatever the directory is.    *)
get_entry_for_path_from_preopen(dir, path, followFinal) ==
  resolve_path(preopen, path, followFinal)

get_entry_for_path(dir, path, followFinal) == resolve_path(dir, path, followFinal)

(* Directory.get_parent_dir_and_entry_for_path; a null filename is <<>>.   *)
NoParent(ret) == [ret |-> ret, parent_entry |-> 0, filename |-> <<>>, entry |-> 0]

(* Lines 898-916: the lookup of filename in the parent. *)
parent_and_entry(parent_entry, filename, entry, allow_undefined) ==
  IF entry = 0 /\ ~allow_undefined THEN NoParent("NOENT")
  ELSE [ret |-> "SUCCESS", parent_entry |-> parent_entry, filename |-> filename,
        entry |-> entry]

(* Lines 882-898: the resolved parent p. *)
parent_resolved(p, filename, allow_undefined) ==
  IF p.entry = 0 THEN NoParent(p.ret)
  ELSE IF inodes[p.entry].kind # "dir" THEN NoParent("NOTDIR")
  ELSE parent_and_entry(p.entry, filename,
                        MapGet(inodes[p.entry].contents, filename), allow_undefined)

get_parent_dir_and_entry_for_path(dir, path, allow_undefined) ==
  IF path.parts = <<>> THEN NoParent("INVAL")
  ELSE parent_resolved(
         resolve_path_from(dir, SubSeq(path.parts, 1, Len(path.parts) - 1),
                           TRUE, TRUE, 0),
         path.parts[Len(path.parts)], allow_undefined)

----------------------------------------------------------------------------
(* The operations return their results together with `heap`, the inode     *)
(* objects as the call leaves them.  A new object gets the next ino.       *)
Failed(ret) == [ret |-> ret, entry |-> 0, heap |-> inodes]

(* Lines 934-952 of Directory.create_entry_for_path. *)
create_entry(g, is_dir) ==
  IF g.parent_entry = 0 \/ g.filename = <<>> THEN Failed(g.ret)
  ELSE IF g.entry # 0 THEN Failed("EXIST")
  ELSE [ret |-> "SUCCESS", entry |-> Len(inodes) + 1,
        heap |-> [Append(inodes,
                         IF is_dir
                           THEN [NewDirectory(<<>>) EXCEPT !.parent = g.parent_entry]
                           ELSE NewFile(<<>>, FALSE))
                  EXCEPT ![g.parent_entry].contents =
                           MapSet(@, g.filename, Len(inodes) + 1)]]

create_entry_parsed(dir, pf, is_dir) ==
  IF pf.path = <<>> THEN Failed(pf.ret)
  ELSE create_entry(get_parent_dir_and_entry_for_path(dir, pf.path[1], TRUE), is_dir)

(* Directory.create_entry_for_path. *)
create_entry_for_path(dir, path_str, is_dir) ==
  create_entry_parsed(dir, PathFrom(path_str), is_dir)

(* Lines 974-994 of Directory.create_symlink_for_path, preceded by the     *)
(* variant without the test of path.is_dir.                                *)
create_symlink_any_path(g, path_is_dir, tgt) ==
  IF g.parent_entry = 0 \/ g.filename = <<>> THEN Failed(g.ret)
  ELSE IF g.entry # 0 THEN Failed("EXIST")
  ELSE [ret |-> "SUCCESS", entry |-> Len(inodes) + 1,
        heap |-> [Append(inodes, NewSymlink(tgt)) EXCEPT
                    ![g.parent_entry].contents =
                       MapSet(@, g.filename, Len(inodes) + 1)]]

create_symlink(g, path_is_dir, tgt) ==
  IF g.parent_entry = 0 \/ g.filename = <<>> THEN Failed(g.ret)
  ELSE IF path_is_dir THEN
    IF g.entry = 0 THEN Failed("NOENT")
    ELSE IF filetype(g.entry) = "dir" THEN Failed("EXIST")
    ELSE Failed("NOTDIR")
  ELSE IF g.entry # 0 THEN Failed("EXIST")
  ELSE [ret |-> "SUCCESS", entry |-> Len(inodes) + 1,
        heap |-> [Append(inodes, NewSymlink(tgt)) EXCEPT
                    ![g.parent_entry].contents =
                       MapSet(@, g.filename, Len(inodes) + 1)]]

create_symlink_parsed(dir, pf, tgt) ==
  IF pf.path = <<>> THEN Failed(pf.ret)
  ELSE create_symlink(get_parent_dir_and_entry_for_path(dir, pf.path[1], TRUE),
                      pf.path[1].is_dir, tgt)

(* Directory.create_symlink_for_path, preceded by the variant that does    *)
(* not test the target.                                                    *)
create_symlink_for_path_any_target(dir, path_str, tgt) ==
  create_symlink_parsed(dir, PathFrom(path_str), tgt)

create_symlink_for_path(dir, path_str, tgt) ==
  IF includes(tgt, NUL) \/ startsWith(tgt, SLASH) THEN Failed("INVAL")
  ELSE create_symlink_parsed(dir, PathFrom(path_str), tgt)

(* An Fd object; a null fd_obj is <<>>. *)
NoFd(ret) == [ret |-> ret, fd_obj |-> <<>>, heap |-> inodes]

OpenFile(h, file, file_pos) ==
  [ret |-> "SUCCESS",
   fd_obj |-> <<[class |-> "OpenFile", inode |-> file, file_pos |-> file_pos]>>,
   heap |-> h]

(* File.path_open on the objects h, preceded by the variant that empties   *)
(* the file before it tests readonly.                                      *)
File_path_open_TruncFirst(h, file, oflags, fs_rights_base, fd_flags) ==
  IF h[file].readonly /\ "FD_WRITE" \in fs_rights_base THEN NoFd("PERM")
  ELSE IF "TRUNC" \in oflags THEN
    IF h[file].readonly
      THEN [ret |-> "PERM", fd_obj |-> <<>>, heap |-> [h EXCEPT ![file].data = <<>>]]
    ELSE OpenFile([h EXCEPT ![file].data = <<>>], file, 0)
  ELSE OpenFile(h, file, IF "APPEND" \in fd_flags THEN Len(h[file].data) ELSE 0)

File_path_open(h, file, oflags, fs_rights_base, fd_flags) ==
  IF h[file].readonly /\ "FD_WRITE" \in fs_rights_base THEN NoFd("PERM")
  ELSE IF "TRUNC" \in oflags THEN
    IF h[file].readonly THEN NoFd("PERM")
    ELSE OpenFile([h EXCEPT ![file].data = <<>>], file, 0)
  ELSE OpenFile(h, file, IF "APPEND" \in fd_flags THEN Len(h[file].data) ELSE 0)

(* Directory.path_open. *)
Directory_path_open(h, dir) ==
  [ret |-> "SUCCESS",
   fd_obj |-> <<[class |-> "OpenDirectory", inode |-> dir, file_pos |-> 0]>>,
   heap |-> h]

(* Lines 371-382 of OpenDirectory.path_open: the entry is opened. *)
open_entry(h, entry, oflags, fs_rights_base, fd_flags) ==
  IF h[entry].kind = "symlink" THEN NoFd("LOOP")
  ELSE IF "DIRECTORY" \in oflags /\ h[entry].kind # "dir" THEN NoFd("NOTDIR")
  ELSE IF h[entry].kind = "dir" THEN Directory_path_open(h, entry)
  ELSE File_path_open(h, entry, oflags, fs_rights_base, fd_flags)

(* Lines 354-361: the entry did not exist and has been created. *)
open_created(c, oflags, fs_rights_base, fd_flags) ==
  IF c.entry = 0 THEN NoFd(c.ret)
  ELSE open_entry(c.heap, c.entry, oflags, fs_rights_base, fd_flags)

(* Lines 347-369: the entry e that the path resolves to. *)
open_resolved(dir, e, path_str, oflags, fs_rights_base, fd_flags) ==
  IF e.entry = 0 THEN
    IF e.ret # "NOENT" THEN NoFd(e.ret)
    ELSE IF "CREAT" \in oflags
      THEN open_created(create_entry_for_path(dir, path_str, "DIRECTORY" \in oflags),
                        oflags, fs_rights_base, fd_flags)
    ELSE NoFd("NOENT")
  ELSE IF "EXCL" \in oflags THEN NoFd("EXIST")
  ELSE open_entry(inodes, e.entry, oflags, fs_rights_base, fd_flags)

open_parsed(dir, dirflags, pf, path_str, oflags, fs_rights_base, fd_flags) ==
  IF pf.path = <<>> THEN NoFd(pf.ret)
  ELSE open_resolved(dir,
         get_entry_for_path(dir, pf.path[1],
                            pf.path[1].is_dir \/ "SYMLINK_FOLLOW" \in dirflags),
         path_str, oflags, fs_rights_base, fd_flags)

(* OpenDirectory.path_open. *)
path_open(dir, dirflags, path_str, oflags, fs_rights_base, fd_flags) ==
  open_parsed(dir, dirflags, PathFrom(path_str), path_str, oflags,
              fs_rights_base, fd_flags)

(* OpenDirectory.path_create_directory. *)
path_create_directory(dir, path_str) ==
  path_open(dir, {}, path_str, {"CREAT", "DIRECTORY"}, {}, {})

(* The overwrite checks of OpenDirectory.path_link on an existing entry:   *)
(* "SUCCESS" when the entry may be replaced.  The variant before it does   *)
(* not test that the directory to replace is empty.                        *)
LinkOverwriteAnyDirectory(inode, entry, allow_dir) ==
  IF filetype(inode) = "dir" /\ filetype(entry) = "dir" THEN
    IF allow_dir THEN "SUCCESS" ELSE "EXIST"
  ELSE IF filetype(inode) = "dir" THEN "NOTDIR"
  ELSE IF filetype(entry) = "dir" THEN "ISDIR"
  ELSE IF filetype(inode) = "file" /\ filetype(entry) = "file" THEN "SUCCESS"
  ELSE "EXIST"

LinkOverwrite(inode, entry, allow_dir) ==
  IF filetype(inode) = "dir" /\ filetype(entry) = "dir" THEN
    IF allow_dir /\ inodes[entry].kind = "dir" THEN
      IF Len(inodes[entry].contents) = 0 THEN "SUCCESS" ELSE "NOTEMPTY"
    ELSE "EXIST"
  ELSE IF filetype(inode) = "dir" /\ ~(filetype(entry) = "dir") THEN "NOTDIR"
  ELSE IF ~(filetype(inode) = "dir") /\ filetype(entry) = "dir" THEN "ISDIR"
  ELSE IF filetype(inode) = "file" /\ filetype(entry) = "file" THEN "SUCCESS"
  ELSE "EXIST"

(* The test `!allow_dir && inode.stat().filetype == FILETYPE_DIRECTORY`,   *)
(* preceded by the variant that never refuses.                             *)
LinkPermNever(inode, allow_dir) == FALSE

LinkPerm(inode, allow_dir) == ~allow_dir /\ filetype(inode) = "dir"

(* Lines 447-452 of OpenDirectory.path_link: the insertion, preceded by    *)
(* the variant that inserts a copy of the inode.                           *)
link_insert_copy(parent_entry, filename, inode) ==
  [Append(inodes, IF inodes[inode].kind = "dir"
                    THEN [inodes[inode] EXCEPT !.parent = parent_entry]
                    ELSE inodes[inode])
   EXCEPT ![parent_entry].contents = MapSet(@, filename, Len(inodes) + 1)]

link_insert(parent_entry, filename, inode) ==
  [(IF inodes[inode].kind = "dir"
      THEN [inodes EXCEPT ![inode].parent = parent_entry]
      ELSE inodes)
   EXCEPT ![parent_entry].contents = MapSet(@, filename, inode)]

NoChange(ret) == [ret |-> ret, heap |-> inodes]

(* Lines 412-452 of OpenDirectory.path_link, preceded by the variant that  *)
(* refuses to link a directory into itself.                                *)
link_at_not_into_itself(g, inode, allow_dir) ==
  IF g.parent_entry = 0 \/ g.filename = <<>> THEN NoChange(g.ret)
  ELSE IF g.entry # 0 /\ LinkOverwrite(inode, g.entry, allow_dir) # "SUCCESS"
    THEN NoChange(LinkOverwrite(inode, g.entry, allow_dir))
  ELSE IF LinkPerm(inode, allow_dir) THEN NoChange("PERM")
  ELSE IF g.parent_entry = inode THEN NoChange("INVAL")
  ELSE [ret |-> "SUCCESS", heap |-> link_insert(g.parent_entry, g.filename, inode)]

link_at(g, inode, allow_dir) ==
  IF g.parent_entry = 0 \/ g.filename = <<>> THEN NoChange(g.ret)
  ELSE IF g.entry # 0 /\ LinkOverwrite(inode, g.entry, allow_dir) # "SUCCESS"
    THEN NoChange(LinkOverwrite(inode, g.entry, allow_dir))
  ELSE IF LinkPerm(inode, allow_dir) THEN NoChange("PERM")
  ELSE [ret |-> "SUCCESS", heap |-> link_insert(g.parent_entry, g.filename, inode)]

link_parsed(dir, pf, inode, allow_dir) ==
  IF pf.path = <<>> THEN NoChange(pf.ret)
  ELSE IF pf.path[1].is_dir THEN NoChange("NOENT")
  ELSE link_at(get_parent_dir_and_entry_for_path(dir, pf.path[1], TRUE),
               inode, allow_dir)

(* OpenDirectory.path_link. *)
path_link(dir, path_str, inode, allow_dir) ==
  link_parsed(dir, PathFrom(path_str), inode, allow_dir)

(* The removal `parent_entry.contents.delete(filename)`. *)
delete_entry(g) ==
  [inodes EXCEPT ![g.parent_entry].contents = MapDelete(@, g.filename)]

(* OpenDirectory.path_unlink. *)
unlink_at(g) ==
  IF g.parent_entry = 0 \/ g.filename = <<>> THEN Failed(g.ret)
  ELSE IF g.entry = 0 THEN Failed("NOENT")
  ELSE [ret |-> "SUCCESS", entry |-> g.entry, heap |-> delete_entry(g)]

unlink_parsed(dir, pf) ==
  IF pf.path = <<>> THEN Failed(pf.ret)
  ELSE unlink_at(get_parent_dir_and_entry_for_path(dir, pf.path[1], TRUE))

path_unlink(dir, path_str) == unlink_parsed(dir, PathFrom(path_str))

(* OpenDirectory.path_unlink_file, preceded by the variant without the     *)
(* test for a directory.                                                   *)
unlink_file_at_any_type(g, expect_dir) ==
  IF g.parent_entry = 0 \/ g.filename = <<>> \/ g.entry = 0 THEN NoChange(g.ret)
  ELSE IF expect_dir THEN NoChange("NOTDIR")
  ELSE [ret |-> "SUCCESS", heap |-> delete_entry(g)]

unlink_file_at(g, expect_dir) ==
  IF g.parent_entry = 0 \/ g.filename = <<>> \/ g.entry = 0 THEN NoChange(g.ret)
  ELSE IF filetype(g.entry) = "dir" THEN NoChange("ISDIR")
  ELSE IF expect_dir THEN NoChange("NOTDIR")
  ELSE [ret |-> "SUCCESS", heap |-> delete_entry(g)]

unlink_file_parsed(dir, pf) ==
  IF pf.path = <<>> THEN NoChange(pf.ret)
  ELSE unlink_file_at(get_parent_dir_and_entry_for_path(dir, pf.path[1], FALSE),
                      pf.path[1].is_dir)

path_unlink_file(dir, path_str) == unlink_file_parsed(dir, PathFrom(path_str))

(* OpenDirectory.path_remove_directory. *)
remove_directory_at_nonempty(g) ==
  IF g.parent_entry = 0 \/ g.filename = <<>> \/ g.entry = 0 THEN NoChange(g.ret)
  ELSE IF inodes[g.entry].kind # "dir" THEN NoChange("NOTDIR")
  ELSE [ret |-> "SUCCESS", heap |-> delete_entry(g)]

remove_directory_at(g) ==
  IF g.parent_entry = 0 \/ g.filename = <<>> \/ g.entry = 0 THEN NoChange(g.ret)
  ELSE IF inodes[g.entry].kind # "dir" THEN NoChange("NOTDIR")
  ELSE IF Len(inodes[g.entry].contents) # 0 THEN NoChange("NOTEMPTY")
  ELSE [ret |-> "SUCCESS", heap |-> delete_entry(g)]

remove_directory_parsed(dir, pf) ==
  IF pf.path = <<>> THEN NoChange(pf.ret)
  ELSE remove_directory_at(
         get_parent_dir_and_entry_for_path(dir, pf.path[1], FALSE))

path_remove_directory(dir, path_str) ==
  remove_directory_parsed(dir, PathFrom(path_str))

(* OpenDirectory.path_symlink. *)
symlink_result(c) ==
  [ret |-> IF c.entry = 0 THEN c.ret ELSE "SUCCESS", heap |-> c.heap]

path_symlink(dir, old_path, new_path) ==
  symlink_result(create_symlink_for_path(dir, new_path, old_path))

(* OpenDirectory.path_lookup and OpenDirectory.path_filestat_get; the      *)
(* filestat is that of `entry`; a null inode_obj or filestat is entry 0.   *)
lookup_parsed(dir, pf, follow) ==
  IF pf.path = <<>> THEN [ret |-> pf.ret, entry |-> 0]
  ELSE get_entry_for_path(dir, pf.path[1], follow)

path_lookup(dir, path_str, dirflags) ==
  IF "SYMLINK_FOLLOW" \in dirflags THEN [ret |-> "INVAL", entry |-> 0]
  ELSE lookup_parsed(dir, PathFrom(path_str), FALSE)

path_filestat_get(dir, flags, path_str) ==
  lookup_parsed(dir, PathFrom(path_str), "SYMLINK_FOLLOW" \in flags)

(* OpenDirectory.fd_filestat_get: the filestat of Directory.stat, built by  *)
(* Inode.build_filestat.                                                   *)
OpenDirectory_fd_filestat_get(dir) ==
  [ret |-> "SUCCESS", filestat |-> [ino |-> inos[dir], filetype |-> "dir", size |-> 0]]

(* Directory.parent_ino. *)
parent_ino(dir) ==
  IF inodes[dir].parent = 0 THEN root_ino ELSE inos[inodes[dir].parent]

(* OpenDirectory.fd_readdir_single; a null dirent is <<>>. *)
Dirent(next, ino, name, type) ==
  <<[d_next |-> next, d_ino |-> ino, name |-> name, d_type |-> type]>>

fd_readdir_single(dir, cookie) ==
  IF cookie = 0
    THEN [ret |-> "SUCCESS", dirent |-> Dirent(1, inos[dir], <<DOT>>, "dir")]
  ELSE IF cookie = 1
    THEN [ret |-> "SUCCESS",
          dirent |-> Dirent(2, parent_ino(dir), <<DOT, DOT>>, "dir")]
  ELSE IF cookie >= Len(inodes[dir].contents) + 2
    THEN [ret |-> "SUCCESS", dirent |-> <<>>]
  ELSE [ret |-> "SUCCESS",
        dirent |-> Dirent(cookie + 1, inos[inodes[dir].contents[cookie - 1].inode],
                          inodes[dir].contents[cookie - 1].name,
                          filetype(inodes[dir].contents[cookie - 1].inode))]

----------------------------------------------------------------------------
(* dataResize, by content: the first newDataSize bytes, zero-filled when   *)
(* growing (a fresh ArrayBuffer and ArrayBuffer.resize both zero-fill).    *)
dataResize(data, newDataSize) ==
  IF Len(data) = newDataSize THEN data
  ELSE IF Len(data) > newDataSize THEN SubSeq(data, 1, newDataSize)
  ELSE data \o [i \in 1..(newDataSize - Len(data)) |-> 0]

(* Uint8Array.prototype.set(bytes, offset), preceded by the variant that   *)
(* is called without the offset, and slice(start, end).                    *)
dataSetAtStart(data, bytes, offset) ==
  [i \in 1..Len(data) |-> IF i <= Len(bytes) THEN bytes[i] ELSE data[i]]

dataSet(data, bytes, offset) ==
  [i \in 1..Len(data) |->
     IF offset < i /\ i <= offset + Len(bytes) THEN bytes[i - offset] ELSE data[i]]

dataSlice(data, start, end) ==
  SubSeq(data, start + 1, IF end < Len(data) THEN end ELSE Len(data))

(* The guard `this.file.readonly` of fd_write and fd_pwrite, preceded by   *)
(* the variant that lets every write through.                              *)
WriteGuardNone(file) == FALSE

WriteGuard(file) == inodes[file].readonly

(* OpenFile.fd_allocate. *)
fd_allocate(fd, offset, len) ==
  LET f == fds[fd].file IN
  [ret |-> "SUCCESS",
   heap |-> IF Len(inodes[f].data) >= offset + len THEN inodes
            ELSE [inodes EXCEPT ![f].data = dataResize(@, offset + len)]]

(* OpenFile.fd_filestat_set_size. *)
fd_filestat_set_size(fd, size) ==
  [ret |-> "SUCCESS",
   heap |-> [inodes EXCEPT ![fds[fd].file].data = dataResize(@, size)]]

(* OpenFile.fd_read and OpenFile.fd_pread.  Before fd_read, the variant    *)
(* that advances the seek offset by the size asked for.                    *)
fd_read_advance_size(fd, size) ==
  LET slice == dataSlice(inodes[fds[fd].file].data, fds[fd].file_pos,
                         fds[fd].file_pos + size)
  IN [ret |-> "SUCCESS", data |-> slice, file_pos |-> fds[fd].file_pos + size]

fd_read(fd, size) ==
  LET slice == dataSlice(inodes[fds[fd].file].data, fds[fd].file_pos,
                         fds[fd].file_pos + size)
  IN [ret |-> "SUCCESS", data |-> slice, file_pos |-> fds[fd].file_pos + Len(slice)]

fd_pread(fd, size, offset) ==
  [ret |-> "SUCCESS",
   data |-> dataSlice(inodes[fds[fd].file].data, offset, offset + size)]

(* OpenFile.fd_seek; the whence values are named, any other is "OTHER".    *)
(* Before it, the variant without the test `calculated_offset < 0`.        *)
fd_seek_unchecked(fd, offset, whence) ==
  LET known == whence \in {"SET", "CUR", "END"}
      calculated_offset ==
        IF whence = "SET" THEN offset
        ELSE IF whence = "CUR" THEN fds[fd].file_pos + offset
        ELSE Len(inodes[fds[fd].file].data) + offset
  IN
  IF ~known THEN [ret |-> "INVAL", offset |-> 0, file_pos |-> fds[fd].file_pos]
  ELSE [ret |-> "SUCCESS", offset |-> calculated_offset,
        file_pos |-> calculated_offset]

fd_seek(fd, offset, whence) ==
  LET known == whence \in {"SET", "CUR", "END"}
      calculated_offset ==
        IF whence = "SET" THEN offset
        ELSE IF whence = "CUR" THEN fds[fd].file_pos + offset
        ELSE Len(inodes[fds[fd].file].data) + offset
  IN
  IF ~known THEN [ret |-> "INVAL", offset |-> 0, file_pos |-> fds[fd].file_pos]
  ELSE IF calculated_offset < 0
    THEN [ret |-> "INVAL", offset |-> 0, file_pos |-> fds[fd].file_pos]
  ELSE [ret |-> "SUCCESS", offset |-> calculated_offset,
        file_pos |-> calculated_offset]

(* OpenFile.fd_write. *)
fd_write(fd, bytes) ==
  LET f == fds[fd].file
      pos == fds[fd].file_pos
  IN
  IF WriteGuard(f)
    THEN [ret |-> "BADF", nwritten |-> 0, heap |-> inodes, file_pos |-> pos]
  ELSE
    LET grown == IF pos + Len(bytes) > Len(inodes[f].data)
                   THEN dataResize(inodes[f].data, pos + Len(bytes))
                   ELSE inodes[f].data
    IN [ret |-> "SUCCESS", nwritten |-> Len(bytes),
        heap |-> [inodes EXCEPT ![f].data = dataSet(grown, bytes, pos)],
        file_pos |-> pos + Len(bytes)]

(* OpenFile.fd_pwrite. *)
fd_pwrite(fd, bytes, offset) ==
  LET f == fds[fd].file IN
  IF WriteGuard(f) THEN [ret |-> "BADF", nwritten |-> 0, heap |-> inodes]
  ELSE
    LET grown == IF offset + Len(bytes) > Len(inodes[f].data)
                   THEN dataResize(inodes[f].data, offset + Len(bytes))
                   ELSE inodes[f].data
    IN [ret |-> "SUCCESS", nwritten |-> Len(bytes),
        heap |-> [inodes EXCEPT ![f].data = dataSet(grown, bytes, offset)]]

----------------------------------------------------------------------------
(* The record of a call: what was called, with what, and what it returned. *)
(* A field that a call does not have keeps the value it has in NoCall.     *)
NoCall ==
  [op |-> "none", dir |-> 0, fd |-> 0, path |-> <<>>, target |-> <<>>,
   flags |-> {}, inode |-> 0, data |-> <<>>, offset |-> 0, size |-> 0,
   ret |-> "SUCCESS", entry |-> 0, out |-> <<>>]

(* No ConsoleStdout has been constructed. *)
NoConsole ==
  [ino |-> 0, pending |-> <<>>, line_buf |-> <<>>, lines |-> <<>>, bytes |-> <<>>]

(* The caller keeps an OpenFile that path_open returns in its descriptor   *)
(* table `fds`.                                                            *)
Keep(fd_obj) ==
  IF fd_obj # <<>> /\ fd_obj[1].class = "OpenFile"
    THEN Append(fds, [file |-> fd_obj[1].inode, file_pos |-> fd_obj[1].file_pos])
    ELSE fds

(* The caller is between two calls, or holds the result of the last one;   *)
(* it makes a call when it is between two calls and has calls left.        *)
Idle == last.op = "none"

Called == Idle /\ ncalls > 0 /\ ncalls' = ncalls - 1

PathLookup(dir, path_str, dirflags) ==
  LET r == path_lookup(dir, path_str, dirflags) IN
  /\ Called
  /\ last' = [NoCall EXCEPT !.op = "path_lookup", !.dir = dir, !.path = path_str,
                            !.flags = dirflags, !.ret = r.ret, !.entry = r.entry]
  /\ UNCHANGED <<inodes, preopen, fds, input, next_ino, inos, console>>

PathFilestatGet(dir, flags, path_str) ==
  LET r == path_filestat_get(dir, flags, path_str) IN
  /\ Called
  /\ last' = [NoCall EXCEPT !.op = "path_filestat_get", !.dir = dir,
                            !.path = path_str, !.flags = flags, !.ret = r.ret,
                            !.entry = r.entry]
  /\ UNCHANGED <<inodes, preopen, fds, input, next_ino, inos, console>>

PathOpen(dir, dirflags, path_str, oflags, fs_rights_base, fd_flags) ==
  LET r == path_open(dir, dirflags, path_str, oflags, fs_rights_base, fd_flags) IN
  /\ Called
  /\ inodes' = r.heap
  /\ Constructing(r.heap)
  /\ fds' = Keep(r.fd_obj)
  /\ last' = [NoCall EXCEPT !.op = "path_open", !.dir = dir, !.path = path_str,
                            !.flags = dirflags \cup oflags \cup fs_rights_base
                                        \cup fd_flags,
                            !.ret = r.ret,
                            !.entry = IF r.fd_obj = <<>> THEN 0 ELSE r.fd_obj[1].inode,
                            !.out = r.fd_obj]
  /\ UNCHANGED <<preopen, input, console>>

PathCreateDirectory(dir, path_str) ==
  LET r == path_create_directory(dir, path_str) IN
  /\ Called
  /\ inodes' = r.heap
  /\ Constructing(r.heap)
  /\ last' = [NoCall EXCEPT !.op = "path_create_directory", !.dir = dir,
                            !.path = path_str, !.ret = r.ret]
  /\ UNCHANGED <<preopen, fds, input, console>>

CreateEntryForPath(dir, path_str, is_dir) ==
  LET r == create_entry_for_path(dir, path_str, is_dir) IN
  /\ Called
  /\ inodes' = r.heap
  /\ Constructing(r.heap)
  /\ last' = [NoCall EXCEPT !.op = "create_entry_for_path", !.dir = dir,
                            !.path = path_str,
                            !.flags = IF is_dir THEN {"is_dir"} ELSE {},
                            !.ret = r.ret, !.entry = r.entry]
  /\ UNCHANGED <<preopen, fds, input, console>>

PathLink(dir, path_str, inode, allow_dir) ==
  LET r == path_link(dir, path_str, inode, allow_dir) IN
  /\ Called
  /\ inodes' = r.heap
  /\ Constructing(r.heap)
  /\ last' = [NoCall EXCEPT !.op = "path_link", !.dir = dir, !.path = path_str,
                            !.inode = inode,
                            !.flags = IF allow_dir THEN {"allow_dir"} ELSE {},
                            !.ret = r.ret]
  /\ UNCHANGED <<preopen, fds, input, console>>

PathUnlink(dir, path_str) ==
  LET r == path_unlink(dir, path_str) IN
  /\ Called
  /\ inodes' = r.heap
  /\ Constructing(r.heap)
  /\ last' = [NoCall EXCEPT !.op = "path_unlink", !.dir = dir, !.path = path_str,
                            !.ret = r.ret, !.entry = r.entry]
  /\ UNCHANGED <<preopen, fds, input, console>>

PathUnlinkFile(dir, path_str) ==
  LET r == path_unlink_file(dir, path_str) IN
  /\ Called
  /\ inodes' = r.heap
  /\ Constructing(r.heap)
  /\ last' = [NoCall EXCEPT !.op = "path_unlink_file", !.dir = dir,
                            !.path = path_str, !.ret = r.ret]
  /\ UNCHANGED <<preopen, fds, input, console>>

PathRemoveDirectory(dir, path_str) ==
  LET r == path_remove_directory(dir, path_str) IN
  /\ Called
  /\ inodes' = r.heap
  /\ Constructing(r.heap)
  /\ last' = [NoCall EXCEPT !.op = "path_remove_directory", !.dir = dir,
                            !.path = path_str, !.ret = r.ret]
  /\ UNCHANGED <<preopen, fds, input, console>>

PathSymlink(dir, old_path, new_path) ==
  LET r == path_symlink(dir, old_path, new_path) IN
  /\ Called
  /\ inodes' = r.heap
  /\ Constructing(r.heap)
  /\ last' = [NoCall EXCEPT !.op = "path_symlink", !.dir = dir, !.path = new_path,
                            !.target = old_path, !.ret = r.ret]
  /\ UNCHANGED <<preopen, fds, input, console>>

FdWrite(fd, bytes) ==
  LET r == fd_write(fd, bytes) IN
  /\ Called
  /\ inodes' = r.heap
  /\ Constructing(r.heap)
  /\ fds' = [fds EXCEPT ![fd].file_pos = r.file_pos]
  /\ last' = [NoCall EXCEPT !.op = "fd_write", !.fd = fd, !.data = bytes,
                            !.ret = r.ret, !.size = r.nwritten]
  /\ UNCHANGED <<preopen, input, console>>

FdPwrite(fd, bytes, offset) ==
  LET r == fd_pwrite(fd, bytes, offset) IN
  /\ Called
  /\ inodes' = r.heap
  /\ Constructing(r.heap)
  /\ last' = [NoCall EXCEPT !.op = "fd_pwrite", !.fd = fd, !.data = bytes,
                            !.offset = offset, !.ret = r.ret, !.size = r.nwritten]
  /\ UNCHANGED <<preopen, fds, input, console>>

FdSeek(fd, offset, whence) ==
  LET r == fd_seek(fd, offset, whence) IN
  /\ Called
  /\ fds' = [fds EXCEPT ![fd].file_pos = r.file_pos]
  /\ last' = [NoCall EXCEPT !.op = "fd_seek", !.fd = fd, !.offset = offset,
                            !.flags = {whence}, !.ret = r.ret, !.size = r.offset]
  /\ UNCHANGED <<inodes, preopen, input, next_ino, inos, console>>

FdAllocate(fd, offset, len) ==
  LET r == fd_allocate(fd, offset, len) IN
  /\ Called
  /\ inodes' = r.heap
  /\ Constructing(r.heap)
  /\ last' = [NoCall EXCEPT !.op = "fd_allocate", !.fd = fd, !.offset = offset,
                            !.size = len, !.ret = r.ret]
  /\ UNCHANGED <<preopen, fds, input, console>>

FdFilestatSetSize(fd, size) ==
  LET r == fd_filestat_set_size(fd, size) IN
  /\ Called
  /\ inodes' = r.heap
  /\ Constructing(r.heap)
  /\ last' = [NoCall EXCEPT !.op = "fd_filestat_set_size", !.fd = fd,
                            !.size = size, !.ret = r.ret]
  /\ UNCHANGED <<preopen, fds, input, console>>

FdRead(fd, size) ==
  LET r == fd_read(fd, size) IN
  /\ Called
  /\ fds' = [fds EXCEPT ![fd].file_pos = r.file_pos]
  /\ last' = [NoCall EXCEPT !.op = "fd_read", !.fd = fd, !.size = size,
                            !.ret = r.ret, !.data = r.data]
  /\ UNCHANGED <<inodes, preopen, input, next_ino, inos, console>>

FdPread(fd, size, offset) ==
  LET r == fd_pread(fd, size, offset) IN
  /\ Called
  /\ last' = [NoCall EXCEPT !.op = "fd_pread", !.fd = fd, !.size = size,
                            !.offset = offset, !.ret = r.ret, !.data = r.data]
  /\ UNCHANGED <<inodes, preopen, fds, input, next_ino, inos, console>>

FdReaddirSingle(dir, cookie) ==
  LET r == fd_readdir_single(dir, cookie) IN
  /\ Called
  /\ last' = [NoCall EXCEPT !.op = "fd_readdir_single", !.dir = dir,
                            !.offset = cookie, !.ret = r.ret, !.out = r.dirent]
  /\ UNCHANGED <<inodes, preopen, fds, input, next_ino, inos, console>>

(* ConsoleStdout.lineBuffered.  Text is a sequence of code points.  LF is  *)
(* "\n" and REPLACEMENT is U+FFFD, which a TextDecoder that is not fatal   *)
(* emits for a malformed sequence.                                         *)
LF == 10
REPLACEMENT == 65533

(* dec.decode(buffer, {stream: true}) of a UTF-8 TextDecoder, for          *)
(* sequences of one and two bytes: `pending` is the lead byte that the     *)
(* decoder holds between two calls, <<>> when it holds none.  A byte that  *)
(* cannot continue the pending lead byte gives REPLACEMENT and is decoded  *)
(* again on its own.                                                       *)
RECURSIVE decode(_, _)
decode(pending, buffer) ==
  IF buffer = <<>> THEN [text |-> <<>>, pending |-> pending]
  ELSE IF pending = <<>> THEN
    IF Head(buffer) < 128
      THEN [decode(<<>>, Tail(buffer)) EXCEPT !.text = <<Head(buffer)>> \o @]
    ELSE IF Head(buffer) >= 194 /\ Head(buffer) <= 223
      THEN decode(<<Head(buffer)>>, Tail(buffer))
    ELSE [decode(<<>>, Tail(buffer)) EXCEPT !.text = <<REPLACEMENT>> \o @]
  ELSE IF Head(buffer) >= 128 /\ Head(buffer) <= 191
    THEN [decode(<<>>, Tail(buffer)) EXCEPT
            !.text = <<((pending[1] % 32) * 64) + (Head(buffer) % 64)>> \o @]
  ELSE [decode(<<>>, buffer) EXCEPT !.text = <<REPLACEMENT>> \o @]

(* line_buf.split("\n"). *)
RECURSIVE splitLines(_)
splitLines(s) ==
  IF ~includes(s, LF) THEN <<s>>
  ELSE LET i == CHOOSE k \in 1..Len(s) :
                  s[k] = LF /\ \A j \in 1..(k - 1) : s[j] # LF
       IN <<SubSeq(s, 1, i - 1)>> \o splitLines(SubSeq(s, i + 1, Len(s)))

(* The loop over lines.entries(): every piece but the last is passed to    *)
(* write, the last one becomes line_buf.                                   *)
deliver(c, lines, pending) ==
  [c EXCEPT !.lines = @ \o SubSeq(lines, 1, Len(lines) - 1),
            !.line_buf = lines[Len(lines)],
            !.pending = pending]

(* The callback that lineBuffered gives to the ConsoleStdout, on the       *)
(* console c; before it, the variant that assigns the decoded text to      *)
(* line_buf instead of appending it.                                       *)
lineBufferedWriteAssign(c, buffer) ==
  deliver(c, splitLines(decode(c.pending, buffer).text),
          decode(c.pending, buffer).pending)

lineBufferedWrite(c, buffer) ==
  deliver(c, splitLines(c.line_buf \o decode(c.pending, buffer).text),
          decode(c.pending, buffer).pending)

(* ConsoleStdout.fd_write on a console made by lineBuffered; `bytes` keeps *)
(* all the bytes written.                                                  *)
ConsoleFdWrite(buffer) ==
  /\ Called
  /\ console.ino # 0
  /\ console' = [lineBufferedWrite(console, buffer) EXCEPT !.bytes = @ \o buffer]
  /\ last' = [NoCall EXCEPT !.op = "ConsoleStdout.fd_write", !.data = buffer,
                            !.size = Len(buffer)]
  /\ UNCHANGED <<inodes, preopen, fds, input, next_ino, inos>>

(* new ConsoleStdout(write): the constructor takes the next ino.  One      *)
(* console is constructed at most.                                         *)
ConsoleStdoutNew ==
  /\ Called
  /\ console.ino = 0
  /\ console' = [NoConsole EXCEPT !.ino = issue_ino(next_ino).ino]
  /\ next_ino' = issue_ino(next_ino).next_ino
  /\ last' = [NoCall EXCEPT !.op = "ConsoleStdout"]
  /\ UNCHANGED <<inodes, preopen, fds, input, inos>>

(* The parser called on its own. *)
ParsePath ==
  LET r == PathFrom(input) IN
  /\ Called
  /\ last' = [NoCall EXCEPT !.op = "Path.from", !.path = input, !.ret = r.ret,
                            !.out = r.path]
  /\ UNCHANGED <<inodes, preopen, fds, input, next_ino, inos, console>>

----------------------------------------------------------------------------
(* SpecPath: Path.from applied to every string of at most MaxInputLen code *)
(* units over NUL, '.', '/' and 'a'.                                       *)
EmptyPreopen == <<NewDirectory(<<>>)>>

InputAlphabet == {NUL, DOT, SLASH, 97}

InputStrings == UNION {[1..n -> InputAlphabet] : n \in 0..MaxInputLen}

InitPath ==
  /\ input \in InputStrings
  /\ inodes = EmptyPreopen
  /\ preopen = 1
  /\ fds = <<>>
  /\ last = NoCall
  /\ ncalls = 1
  /\ next_ino = CounterAfter(1, Len(inodes))
  /\ inos = IssuedInos(1, Len(inodes))
  /\ console = NoConsole

NextPath == ParsePath

SpecPath == InitPath /\ [][NextPath]_vars

----------------------------------------------------------------------------
(* A string ascends when, reading its components left to right and leaving *)
(* out the empty ones and the "." ones, a ".." comes while nothing is      *)
(* retained.                                                               *)
RECURSIVE AscendsFrom(_, _)
AscendsFrom(comps, retained) ==
  IF comps = <<>> THEN FALSE
  ELSE IF Head(comps) = <<>> \/ Head(comps) = <<DOT>>
    THEN AscendsFrom(Tail(comps), retained)
  ELSE IF Head(comps) = <<DOT, DOT>>
    THEN retained = 0 \/ AscendsFrom(Tail(comps), retained - 1)
  ELSE AscendsFrom(Tail(comps), retained + 1)

Ascends(s) == AscendsFrom(split(s), 0)

(* C2, as stated: Path.from fails with NOTCAPABLE and returns no Path on   *)
(* every ascending string.                                                 *)
C2_AsStated ==
  (last.op = "Path.from" /\ Ascends(last.path))
    => (last.ret = "NOTCAPABLE" /\ last.out = <<>>)

(* C2, amended: on every ascending string Path.from fails and returns no   *)
(* Path; the error is NOTCAPABLE, except that a string which contains a    *)
(* NUL and does not start with '/' fails with INVAL.                       *)
C2_AscendingPathFails ==
  (last.op = "Path.from" /\ Ascends(last.path))
    => /\ last.out = <<>>
       /\ last.ret = IF includes(last.path, NUL) /\ ~startsWith(last.path, SLASH)
                       THEN "INVAL" ELSE "NOTCAPABLE"

(* C2 witness: "a/../.." has been parsed. *)
C2_Witness ==
  /\ last.op = "Path.from"
  /\ last.path = <<97, SLASH, DOT, DOT, SLASH, DOT, DOT>>
  /\ last.ret = "NOTCAPABLE"

----------------------------------------------------------------------------
(* Spec: a pre-opened directory under the directory operations.  The host *)
(* constructs the PreopenDirectory from a contents map of its own; the     *)
(* objects get their ino in construction order, the pre-open's Directory   *)
(* last, and the Directory constructor sets the parent of the directories  *)
(* in its map.  The trees are                                              *)
(*   {}                                                                    *)
(*   {a: read-only File [1]}                                               *)
(*   {a: {b: File []}, b: Symlink "a"}                                     *)
(*   {a: {b: Symlink ".."}, b: Symlink "b"}                                *)
Entry(n, i) == [name |-> n, inode |-> i]

Preopens ==
  { [heap |-> EmptyPreopen, dir |-> 1],
    [heap |-> <<NewFile(<<1>>, TRUE), NewDirectory(<<Entry(<<97>>, 1)>>)>>,
     dir |-> 2],
    [heap |-> <<NewFile(<<>>, FALSE),
                [NewDirectory(<<Entry(<<98>>, 1)>>) EXCEPT !.parent = 4],
                NewSymlink(<<97>>),
                NewDirectory(<<Entry(<<97>>, 2), Entry(<<98>>, 3)>>)>>,
     dir |-> 4],
    [heap |-> <<NewSymlink(<<DOT, DOT>>),
                [NewDirectory(<<Entry(<<98>>, 1)>>) EXCEPT !.parent = 4],
                NewSymlink(<<98>>),
                NewDirectory(<<Entry(<<97>>, 2), Entry(<<98>>, 3)>>)>>,
     dir |-> 4] }

Init ==
  /\ \E p \in Preopens : inodes = p.heap /\ preopen = p.dir
  /\ fds = <<>>
  /\ input = <<>>
  /\ last = NoCall
  /\ ncalls = MaxCalls
  /\ next_ino = CounterAfter(1, Len(inodes))
  /\ inos = IssuedInos(1, Len(inodes))
  /\ console = NoConsole

(* The inputs of the calls: "", "a", "b", "a/", "b/", "a/b", "b/a", "..",  *)
(* "/a" as paths; "a", "b", "..", "/b" as symlink targets.                 *)
PathStrings ==
  {<<>>, <<97>>, <<98>>, <<97, SLASH>>, <<98, SLASH>>, <<97, SLASH, 98>>,
   <<98, SLASH, 97>>, <<DOT, DOT>>, <<SLASH, 97>>}

SymlinkTargets == {<<97>>, <<98>>, <<DOT, DOT>>, <<SLASH, 98>>, <<97, NUL>>}

LookupFlags == SUBSET {"SYMLINK_FOLLOW"}
OFlags == SUBSET {"CREAT", "DIRECTORY", "EXCL", "TRUNC"}

(* The open flags, rights and fd flags of path_open: every set of open     *)
(* flags without rights, and no open flags with the write right or with    *)
(* the append flag.                                                        *)
OpenArgs ==
  {[oflags |-> o, rights |-> {}, fd_flags |-> {}] : o \in OFlags}
    \cup {[oflags |-> {}, rights |-> {"FD_WRITE"}, fd_flags |-> {}],
          [oflags |-> {}, rights |-> {}, fd_flags |-> {"APPEND"}]}

Chunks == {<<>>, <<2>>, <<2, 3>>}
Offsets == 0..MaxOffset
Whences == {"SET", "CUR", "END", "OTHER"}
Handles == 1..Len(fds)

(* The caller drops the result of the last call. *)
Return ==
  /\ ~Idle
  /\ last' = NoCall
  /\ UNCHANGED <<inodes, preopen, fds, input, ncalls, next_ino, inos, console>>

(* The calls.  The lookups are made on the OpenDirectory of any directory, *)
(* the other directory calls on the pre-open; path_open is also made,      *)
(* without open flags, on the other directories.  The file calls are made  *)
(* on the OpenFile handles that path_open returned.                        *)
Lookup ==
  \/ \E dir \in Dirs, path_str \in PathStrings, flags \in LookupFlags :
       PathLookup(dir, path_str, flags)
  \/ \E dir \in Dirs, path_str \in PathStrings, flags \in LookupFlags :
       PathFilestatGet(dir, flags, path_str)

Open ==
  \E dir \in Dirs, path_str \in PathStrings, dirflags \in LookupFlags :
    \E a \in IF dir = preopen THEN OpenArgs
              ELSE {[oflags |-> {}, rights |-> {}, fd_flags |-> {}]} :
      PathOpen(dir, dirflags, path_str, a.oflags, a.rights, a.fd_flags)

Create ==
  \/ \E path_str \in PathStrings : PathCreateDirectory(preopen, path_str)
  \/ \E path_str \in PathStrings, is_dir \in BOOLEAN :
       CreateEntryForPath(preopen, path_str, is_dir)
  \/ \E path_str \in PathStrings, old_path \in SymlinkTargets :
       PathSymlink(preopen, old_path, path_str)

Link ==
  \E path_str \in PathStrings, inode \in Allocated, allow_dir \in BOOLEAN :
    PathLink(preopen, path_str, inode, allow_dir)

Remove ==
  \/ \E path_str \in PathStrings : PathUnlink(preopen, path_str)
  \/ \E path_str \in PathStrings : PathUnlinkFile(preopen, path_str)
  \/ \E path_str \in PathStrings : PathRemoveDirectory(preopen, path_str)

FileCall ==
  \/ \E fd \in Handles, bytes \in Chunks : FdWrite(fd, bytes)
  \/ \E fd \in Handles, bytes \in Chunks, offset \in Offsets :
       FdPwrite(fd, bytes, offset)
  \/ \E fd \in Handles, offset \in (0 - MaxOffset)..MaxOffset, whence \in Whences :
       FdSeek(fd, offset, whence)
  \/ \E fd \in Handles, offset \in Offsets, len \in Offsets :
       FdAllocate(fd, offset, len)
  \/ \E fd \in Handles, size \in Offsets : FdFilestatSetSize(fd, size)
  \/ \E fd \in Handles, size \in Offsets : FdRead(fd, size)
  \/ \E fd \in Handles, size \in Offsets, offset \in Offsets :
       FdPread(fd, size, offset)

Next == Lookup \/ Open \/ Create \/ Link \/ Remove \/ FileCall \/ Return

Spec == Init /\ [][Next]_vars

----------------------------------------------------------------------------
(* The inodes reachable from a directory by contents edges only. *)
Children(S) ==
  S \cup UNION {{inodes[d].contents[i].inode : i \in 1..Len(inodes[d].contents)}
                : d \in S}

RECURSIVE ReachN(_, _)
ReachN(S, n) == IF n = 0 THEN S ELSE ReachN(Children(S), n - 1)

Reach(D) == ReachN({D}, Len(inodes))

(* The symlink that a call's path names directly in the call's directory   *)
(* and that the call follows: the path has one component, and either ends  *)
(* with '/' or is looked up with the follow flag.  0 if there is none.     *)
FollowedSymlink(call) ==
  IF PathFrom(call.path).path = <<>> THEN 0
  ELSE IF Len(PathFrom(call.path).path[1].parts) # 1 THEN 0
  ELSE IF ~(PathFrom(call.path).path[1].is_dir \/ "SYMLINK_FOLLOW" \in call.flags)
    THEN 0
  ELSE IF MapGet(inodes[call.dir].contents, PathFrom(call.path).path[1].parts[1]) = 0
    THEN 0
  ELSE IF inodes[MapGet(inodes[call.dir].contents,
                        PathFrom(call.path).path[1].parts[1])].kind # "symlink"
    THEN 0
  ELSE MapGet(inodes[call.dir].contents, PathFrom(call.path).path[1].parts[1])

(* C1: an inode that path_lookup, path_filestat_get or path_open on the    *)
(* OpenDirectory of a directory D returns with SUCCESS is D or is          *)
(* reachable from D by contents edges; and a call that follows a symlink   *)
(* of D whose target ascends fails with NOTCAPABLE and returns nothing.    *)
C1_Confinement ==
  /\ (last.op \in {"path_lookup", "path_filestat_get", "path_open"}
        /\ last.ret = "SUCCESS")
       => last.entry \in Reach(last.dir)
  /\ (last.op \in {"path_filestat_get", "path_open"}
        /\ FollowedSymlink(last) # 0
        /\ Ascends(inodes[FollowedSymlink(last)].target))
       => (last.ret = "NOTCAPABLE" /\ last.entry = 0)

(* C1 witness: the symlink "b" with target ".." has been followed from the *)
(* directory a that holds it, a directory below the pre-open.              *)
C1_Witness ==
  /\ last.op = "path_filestat_get"
  /\ last.dir # preopen
  /\ FollowedSymlink(last) # 0
  /\ inodes[FollowedSymlink(last)].target = <<DOT, DOT>>
  /\ last.ret = "NOTCAPABLE"

(* C3: a call of path_open, path_create_directory, path_link, path_unlink, *)
(* path_unlink_file, path_remove_directory, path_symlink, fd_write,        *)
(* fd_pwrite, fd_seek, fd_allocate or fd_filestat_set_size that returns a  *)
(* status other than SUCCESS leaves every inode object (contents, parent,  *)
(* bytes) and every handle's seek offset as they were.                     *)
AtomicOps ==
  {"path_open", "path_create_directory", "path_link", "path_unlink",
   "path_unlink_file", "path_remove_directory", "path_symlink", "fd_write",
   "fd_pwrite", "fd_seek", "fd_allocate", "fd_filestat_set_size"}

C3_FailedCallChangesNothing ==
  [][(last'.op \in AtomicOps /\ last'.ret # "SUCCESS")
       => (inodes' = inodes /\ fds' = fds)]_vars

(* C3 witness: path_open with the truncate flag has failed with PERM on a  *)
(* read-only file.                                                         *)
C3_Witness ==
  /\ last.op = "path_open"
  /\ "TRUNC" \in last.flags
  /\ last.ret = "PERM"

(* What the name of a path_link call holds before the call: the path has   *)
(* no trailing '/', its parent is resolved and the name is looked up in    *)
(* the parent without following it.                                        *)
NamedEntry(dir, path_str) ==
  IF PathFrom(path_str).path = <<>> THEN NoParent(PathFrom(path_str).ret)
  ELSE IF PathFrom(path_str).path[1].is_dir THEN NoParent("NOENT")
  ELSE get_parent_dir_and_entry_for_path(dir, PathFrom(path_str).path[1], TRUE)

(* The overwrite matrix as C5 states it, and as amended. *)
MatrixAsStated(source, target, allow_dir) ==
  IF inodes[source].kind = "dir" /\ inodes[target].kind = "dir" THEN
    IF inodes[target].contents # <<>> THEN "NOTEMPTY"
    ELSE IF allow_dir THEN "SUCCESS" ELSE "EXIST"
  ELSE IF inodes[source].kind = "dir" THEN "NOTDIR"
  ELSE IF inodes[target].kind = "dir" THEN "ISDIR"
  ELSE IF inodes[source].kind = "file" /\ inodes[target].kind = "file" THEN "SUCCESS"
  ELSE "EXIST"

MatrixAmended(source, target, allow_dir) ==
  IF inodes[source].kind = "dir" /\ inodes[target].kind = "dir" THEN
    IF ~allow_dir THEN "EXIST"
    ELSE IF inodes[target].contents # <<>> THEN "NOTEMPTY"
    ELSE "SUCCESS"
  ELSE IF inodes[source].kind = "dir" THEN "NOTDIR"
  ELSE IF inodes[target].kind = "dir" THEN "ISDIR"
  ELSE IF inodes[source].kind = "file" /\ inodes[target].kind = "file" THEN "SUCCESS"
  ELSE "EXIST"

(* After the call, the name holds the linked inode in the objects `post`.  *)
LinkReplaces(call, post) ==
  MapGet(post[NamedEntry(call.dir, call.path).parent_entry].contents,
         NamedEntry(call.dir, call.path).filename) = call.inode

C6_AsStated ==
  [][(/\ last'.op = "path_link"
      /\ inodes[last'.inode].kind = "dir"
      /\ "allow_dir" \notin last'.flags
      /\ NamedEntry(last'.dir, last'.path).parent_entry # 0)
       => (last'.ret = "PERM" /\ inodes' = inodes)]_vars

(* C6, amended: path_link of a directory with allowDirectory false changes *)
(* nothing and fails: with PERM when the name being created is free, with  *)
(* EXIST when it holds a directory (empty or not), and with NOTDIR when it *)
(* holds a file or a symlink.                                              *)
C6_DirectoryLinkRefused ==
  [][(/\ last'.op = "path_link"
      /\ inodes[last'.inode].kind = "dir"
      /\ "allow_dir" \notin last'.flags
      /\ NamedEntry(last'.dir, last'.path).parent_entry # 0)
       => /\ inodes' = inodes
          /\ last'.ret =
               IF NamedEntry(last'.dir, last'.path).entry = 0 THEN "PERM"
               ELSE IF inodes[NamedEntry(last'.dir, last'.path).entry].kind = "dir"
                 THEN "EXIST"
               ELSE "NOTDIR"]_vars

(* C6 witness: a directory has been linked under a free name with          *)
(* allowDirectory false, and the call has failed with PERM.                *)
C6_Witness ==
  /\ last.op = "path_link"
  /\ inodes[last.inode].kind = "dir"
  /\ "allow_dir" \notin last.flags
  /\ last.ret = "PERM"

(* C7, as stated: no step changes the bytes of a read-only File.           *)
C7_AsStated ==
  [][\A f \in Files : inodes[f].readonly => inodes'[f].data = inodes[f].data]_vars

(* C8: fd_write and fd_pwrite on a handle of a read-only File return BADF  *)
(* or PERM with nwritten = 0, and leave the file's bytes and the handle's  *)
(* seek offset as they were.                                               *)
C8_ReadOnlyWriteFails ==
  [][(last'.op \in {"fd_write", "fd_pwrite"}
        /\ inodes[fds[last'.fd].file].readonly)
       => /\ last'.ret \in {"BADF", "PERM"}
          /\ last'.size = 0
          /\ inodes' = inodes
          /\ fds' = fds]_vars

(* C8 witness: fd_pwrite of two bytes at offset 1 has failed with BADF on  *)
(* a handle of a read-only File.                                           *)
C8_Witness ==
  /\ last.op = "fd_pwrite"
  /\ inodes[fds[last.fd].file].readonly
  /\ last.data = <<2, 3>>
  /\ last.offset = 1
  /\ last.ret = "BADF"

(* C9, as stated: path_open with the create and exclusive flags on a path  *)
(* whose name holds an entry returns EXIST and no handle, and changes      *)
(* nothing.                                                                *)
C9_AsStated ==
  [][(/\ last'.op = "path_open"
      /\ {"CREAT", "EXCL"} \subseteq last'.flags
      /\ NamedEntry(last'.dir, last'.path).entry # 0)
       => (last'.ret = "EXIST" /\ last'.out = <<>> /\ inodes' = inodes)]_vars

(* The names that fd_readdir_single yields for the cookies 0, 1, ... up to *)
(* the end of the directory.                                               *)
ReaddirNames(dir) ==
  [c \in 1..(Len(inodes[dir].contents) + 2) |->
     fd_readdir_single(dir, c - 1).dirent[1].name]

(* The parent and the name that a create_entry_for_path call has resolved. *)
CreatedAt(call) ==
  get_parent_dir_and_entry_for_path(call.dir, PathFrom(call.path).path[1], TRUE)

(* The entry that a path_remove_directory call names, in the state before  *)
(* the call.                                                               *)
RemovedAt(call) ==
  get_parent_dir_and_entry_for_path(call.dir, PathFrom(call.path).path[1], FALSE)

(* What resolving the path of the last call, from the directory of the     *)
(* last call, returns now.                                                 *)
LastResolves(flags) == path_filestat_get(last.dir, flags, last.path).ret

(* C11: a path_remove_directory call whose path names a non-empty          *)
(* directory returns NOTEMPTY and changes nothing; one whose path names a  *)
(* file or a symlink (whatever it points to) returns NOTDIR and changes    *)
(* nothing; one whose path names a directory that is empty, from its       *)
(* construction or because the calls before have removed its children,     *)
(* returns SUCCESS, and afterwards the path resolves to NOENT.             *)
C11_RemoveDirectory ==
  [][(Idle /\ last'.op = "path_remove_directory"
        /\ PathFrom(last'.path).path # <<>>
        /\ RemovedAt(last').entry # 0)
      => /\ inodes[RemovedAt(last').entry].kind # "dir"
              => last'.ret = "NOTDIR" /\ inodes' = inodes
         /\ (inodes[RemovedAt(last').entry].kind = "dir"
               /\ inodes[RemovedAt(last').entry].contents # <<>>)
              => last'.ret = "NOTEMPTY" /\ inodes' = inodes
         /\ (inodes[RemovedAt(last').entry].kind = "dir"
               /\ inodes[RemovedAt(last').entry].contents = <<>>)
              => last'.ret = "SUCCESS"]_vars
  /\ []((last.op = "path_remove_directory" /\ last.ret = "SUCCESS")
          => /\ LastResolves({}) = "NOENT"
             /\ LastResolves({"SYMLINK_FOLLOW"}) = "NOENT")

(* C11 happens: the directory a of a host-built tree, which had a child,   *)
(* has been emptied by one call and removed by the next.                   *)
C11_Witness ==
  /\ last.op = "path_remove_directory"
  /\ last.ret = "SUCCESS"
  /\ last.path \in {<<97>>, <<97, SLASH>>}
  /\ Len(inodes) = 4
  /\ inodes[2].kind = "dir"
  /\ inodes[2].contents = <<>>
  /\ ~MapHas(inodes[preopen].contents, <<97>>)


(* C10, as stated: after create_entry_for_path(p, isDir) has returned      *)
(* SUCCESS with inode x, resolving p from the same directory returns x,    *)
(* which is an empty File or an empty Directory as requested, a Directory  *)
(* having the resolved parent as its parent; and fd_readdir_single over    *)
(* the parent yields '.', '..' and then the entries in order, the new name *)
(* last, and then the end of the directory.                                *)
C10_AsStated ==
  (last.op = "create_entry_for_path" /\ last.ret = "SUCCESS")
    => /\ path_filestat_get(last.dir, {}, last.path).ret = "SUCCESS"
       /\ path_filestat_get(last.dir, {}, last.path).entry = last.entry
       /\ inodes[last.entry].kind = IF "is_dir" \in last.flags THEN "dir" ELSE "file"
       /\ inodes[last.entry].contents = <<>>
       /\ inodes[last.entry].data = <<>>
       /\ "is_dir" \in last.flags
            => inodes[last.entry].parent = CreatedAt(last).parent_entry
       /\ ReaddirNames(CreatedAt(last).parent_entry)
            = <<<<DOT>>, <<DOT, DOT>>>>
                \o [i \in 1..Len(inodes[CreatedAt(last).parent_entry].contents) |->
                      inodes[CreatedAt(last).parent_entry].contents[i].name]
       /\ ReaddirNames(CreatedAt(last).parent_entry)
            [Len(inodes[CreatedAt(last).parent_entry].contents) + 2]
            = CreatedAt(last).filename
       /\ fd_readdir_single(
            CreatedAt(last).parent_entry,
            Len(inodes[CreatedAt(last).parent_entry].contents) + 1).dirent[1].d_ino
            = inos[last.entry]
       /\ fd_readdir_single(
            CreatedAt(last).parent_entry,
            Len(inodes[CreatedAt(last).parent_entry].contents) + 2).dirent = <<>>

----------------------------------------------------------------------------
(* SpecChain: a pre-open that the host constructs with a regular file f, a *)
(* directory d holding a file f, and a chain of n symlinks, the k-th named *)
(* by the code unit 1000 + k, each with the next one's name as its target  *)
(* and the last with the target "f" or "d".  The objects get their ino in  *)
(* construction order: the files, d, the symlinks, the pre-open.           *)
ChainName(k) == <<1000 + k>>

ChainHeap(n, tgt) ==
  [i \in 1..(n + 4) |->
     IF i = 1 \/ i = 2 THEN NewFile(<<>>, FALSE)
     ELSE IF i = 3 THEN [NewDirectory(<<Entry(<<102>>, 2)>>) EXCEPT !.parent = n + 4]
     ELSE IF i = n + 4
       THEN NewDirectory(<<Entry(<<102>>, 1), Entry(<<100>>, 3)>>
                           \o [k \in 1..n |-> Entry(ChainName(k), k + 3)])
     ELSE NewSymlink(IF i - 3 < n THEN ChainName(i - 2) ELSE tgt)]

InitChain ==
  /\ \E n \in 1..MaxChain, tgt \in {<<102>>, <<100>>} :
       inodes = ChainHeap(n, tgt) /\ preopen = n + 4
  /\ fds = <<>>
  /\ input = <<>>
  /\ last = NoCall
  /\ ncalls = 1
  /\ next_ino = CounterAfter(1, Len(inodes))
  /\ inos = IssuedInos(1, Len(inodes))
  /\ console = NoConsole

(* The calls: the k-th symlink is looked up as the whole path, as the      *)
(* first component of "<k-th>/f", and as the parent of the entry that      *)
(* create_entry_for_path is to create at "<k-th>/f".                       *)
NextChain ==
  \/ \E k \in 1..MaxChain, flags \in LookupFlags :
       PathFilestatGet(preopen, flags, ChainName(k))
  \/ \E k \in 1..MaxChain, flags \in LookupFlags :
       PathFilestatGet(preopen, flags, ChainName(k) \o <<SLASH, 102>>)
  \/ \E k \in 1..MaxChain, flags \in LookupFlags :
       PathFilestatGet(preopen, flags, ChainName(k) \o <<SLASH>>)
  \/ \E k \in 1..MaxChain :
       CreateEntryForPath(preopen, ChainName(k) \o <<SLASH, 102>>, FALSE)
  \/ Return

SpecChain == InitChain /\ [][NextChain]_vars

(* The number of symlinks from the name to the first entry of the pre-open *)
(* that is not a symlink, and that entry.                                  *)
RECURSIVE ChainLength(_)
ChainLength(name) ==
  IF MapGet(inodes[preopen].contents, name) = 0 THEN 0
  ELSE IF inodes[MapGet(inodes[preopen].contents, name)].kind # "symlink" THEN 0
  ELSE 1 + ChainLength(inodes[MapGet(inodes[preopen].contents, name)].target)

RECURSIVE ChainEnd(_)
ChainEnd(name) ==
  IF MapGet(inodes[preopen].contents, name) = 0 THEN 0
  ELSE IF inodes[MapGet(inodes[preopen].contents, name)].kind # "symlink"
    THEN MapGet(inodes[preopen].contents, name)
  ELSE ChainEnd(inodes[MapGet(inodes[preopen].contents, name)].target)

(* The call's path is the head of a chain of n >= 1 symlinks to an inode   *)
(* of the given kind, followed by the given components.                    *)
CrossesChain(call, kind, rest) ==
  /\ Len(split(call.path)) = 1 + Len(rest)
  /\ SubSeq(split(call.path), 2, Len(split(call.path))) = rest
  /\ ChainLength(split(call.path)[1]) >= 1
  /\ ChainEnd(split(call.path)[1]) # 0
  /\ inodes[ChainEnd(split(call.path)[1])].kind = kind

(* C4: resolving, with the follow flag, the head of a chain of n symlinks  *)
(* to a regular file returns the file when n <= 40 and fails with LOOP     *)
(* when n = 41 or more; resolving "<head>/f" over a chain to a directory   *)
(* returns the directory's f when n <= 40 and fails with LOOP beyond; and  *)
(* create_entry_for_path at "<head>/f", whose parent lookup crosses the    *)
(* chain, finds f (EXIST) when n <= 40 and fails with LOOP beyond.         *)
C4_HopLimit ==
  /\ (/\ last.op = "path_filestat_get"
      /\ "SYMLINK_FOLLOW" \in last.flags
      /\ CrossesChain(last, "file", <<>>))
       => IF ChainLength(last.path) <= SYMLOOP_MAX
            THEN last.ret = "SUCCESS" /\ last.entry = ChainEnd(last.path)
            ELSE last.ret = "LOOP" /\ last.entry = 0
  /\ (last.op = "path_filestat_get" /\ CrossesChain(last, "dir", <<<<102>>>>))
       => IF ChainLength(split(last.path)[1]) <= SYMLOOP_MAX
            THEN /\ last.ret = "SUCCESS"
                 /\ last.entry =
                      MapGet(inodes[ChainEnd(split(last.path)[1])].contents, <<102>>)
            ELSE last.ret = "LOOP" /\ last.entry = 0
  /\ (last.op = "create_entry_for_path" /\ CrossesChain(last, "dir", <<<<102>>>>))
       => last.ret = IF ChainLength(split(last.path)[1]) <= SYMLOOP_MAX
                       THEN "EXIST" ELSE "LOOP"

(* C4 witness: the head of a chain of 41 symlinks to a regular file has    *)
(* been resolved with the follow flag, and the call has failed with LOOP.  *)
C4_Witness ==
  /\ last.op = "path_filestat_get"
  /\ "SYMLINK_FOLLOW" \in last.flags
  /\ CrossesChain(last, "file", <<>>)
  /\ ChainLength(last.path) = SYMLOOP_MAX + 1
  /\ last.ret = "LOOP"

-----------------------------------------------------------------------------
(* SpecFile: a caller that holds an OpenFile on a writable File of a       *)
(* pre-open, at position 0, makes up to MaxFileCalls calls on it.          *)
FileHeap(bytes) == <<NewFile(bytes, FALSE), NewDirectory(<<Entry(<<102>>, 1)>>)>>

InitFile ==
  /\ \E bytes \in {<<>>, <<1>>, <<1, 1>>} : inodes = FileHeap(bytes)
  /\ preopen = 2
  /\ fds = <<[file |-> 1, file_pos |-> 0]>>
  /\ input = <<>>
  /\ last = NoCall
  /\ ncalls = MaxFileCalls
  /\ next_ino = CounterAfter(1, Len(inodes))
  /\ inos = IssuedInos(1, Len(inodes))
  /\ console = NoConsole

NextFile ==
  \/ \E bytes \in Chunks : FdWrite(1, bytes)
  \/ \E bytes \in Chunks, offset \in Offsets : FdPwrite(1, bytes, offset)
  \/ \E offset \in (0 - MaxOffset)..MaxOffset, whence \in Whences :
       FdSeek(1, offset, whence)
  \/ \E size \in Offsets : FdFilestatSetSize(1, size)
  \/ \E size \in Offsets : FdRead(1, size)
  \/ \E size \in Offsets, offset \in Offsets : FdPread(1, size, offset)
  \/ Return

SpecFile == InitFile /\ [][NextFile]_vars

(* The offset at which a write call, made now with the arguments of        *)
(* `call`, writes; and the offset at which the last call has written.      *)
WriteOffset(call) ==
  IF call.op = "fd_write" THEN fds[call.fd].file_pos ELSE call.offset

WrittenAt ==
  IF last.op = "fd_write" THEN fds[last.fd].file_pos - Len(last.data)
  ELSE last.offset

(* C12: an fd_write or fd_pwrite on a writable file at an offset o beyond  *)
(* the length L of the file makes the size o + len, keeps the bytes        *)
(* [0, L), leaves zero in [L, o), which reads back as zero, and the        *)
(* written bytes in [o, o + len), whatever calls, fd_filestat_set_size     *)
(* among them, came before; and after every write of N bytes at an offset, *)
(* that of N bytes at offset 0 of an empty file among them, reading N      *)
(* bytes from the offset returns the written bytes.                        *)
C12_WriteReadRoundTrip ==
  /\ [][(Idle /\ last'.op \in {"fd_write", "fd_pwrite"}
           /\ WriteOffset(last') > Len(inodes[1].data))
         => /\ last'.ret = "SUCCESS"
            /\ Len(inodes'[1].data) = WriteOffset(last') + Len(last'.data)
            /\ SubSeq(inodes'[1].data, 1, Len(inodes[1].data)) = inodes[1].data
            /\ dataSlice(inodes'[1].data, Len(inodes[1].data), WriteOffset(last'))
                 = [i \in 1..(WriteOffset(last') - Len(inodes[1].data)) |-> 0]
            /\ SubSeq(inodes'[1].data, WriteOffset(last') + 1,
                      WriteOffset(last') + Len(last'.data)) = last'.data]_vars
  /\ []((last.op \in {"fd_write", "fd_pwrite"} /\ last.ret = "SUCCESS")
          => /\ last.size = Len(last.data)
             /\ fd_pread(last.fd, Len(last.data), WrittenAt).data = last.data)

(* C12 happens: a file of two bytes has been shrunk to one byte, the       *)
(* position moved to 2, and two bytes written there.                       *)
C12_Witness ==
  /\ last.op = "fd_write"
  /\ last.data = <<2, 3>>
  /\ inodes[1].data = <<1, 0, 2, 3>>
  /\ fds[1].file_pos = 4
  /\ ncalls = 0

-----------------------------------------------------------------------------
(* SpecIno: the calls that construct, link and remove inodes on a pre-open *)
(* of the host, and the construction of a ConsoleStdout between them.      *)
NextIno == Create \/ Link \/ Remove \/ ConsoleStdoutNew \/ Return

SpecIno == Init /\ [][NextIno]_vars

(* C13: every inode object has an ino; the inos are at least 1, strictly   *)
(* increasing in the order of construction, so distinct, they begin at 1,  *)
(* and none is the ino of the console or an ino still to be issued; no     *)
(* call changes the ino of an object that exists, path_link on an object   *)
(* included, and an object constructed by a call gets an ino that was not  *)
(* issued before.                                                          *)
C13_InoUnique ==
  /\ [](/\ Len(inos) = Len(inodes)
        /\ \A i \in 1..Len(inos) : 1 <= inos[i] /\ inos[i] < next_ino
        /\ \A i, j \in 1..Len(inos) : i < j => inos[i] < inos[j]
        /\ inos[1] = 1
        /\ console.ino # 0
             => /\ 1 <= console.ino /\ console.ino < next_ino
                /\ \A i \in 1..Len(inos) : inos[i] # console.ino)
  /\ [][/\ SubSeq(inos', 1, Len(inos)) = inos
        /\ \A i \in (Len(inos) + 1)..Len(inos') : inos'[i] >= next_ino
        /\ (console.ino = 0 /\ console'.ino # 0) => console'.ino >= next_ino
        /\ last'.op = "path_link" => inos' = inos]_vars

(* C13 happens: a ConsoleStdout has been constructed, then an inode, and   *)
(* the inode has the ino after that of the console.                        *)
C13_Witness ==
  /\ console.ino # 0
  /\ Len(inos) > 1
  /\ inos[Len(inos)] = console.ino + 1
  /\ last.op \in {"path_create_directory", "create_entry_for_path", "path_symlink"}
  /\ last.ret = "SUCCESS"

-----------------------------------------------------------------------------
(* Following the parent of a directory at most n times ends at a directory *)
(* without parent.                                                         *)
RECURSIVE ParentEnds(_, _)
ParentEnds(d, n) ==
  IF d = 0 THEN TRUE
  ELSE IF n = 0 THEN FALSE
  ELSE ParentEnds(inodes[d].parent, n - 1)

(* C14, as stated: in every state that the create, symlink, link, unlink   *)
(* and remove calls reach from a tree of the host, following the parent    *)
(* of any directory ends at a directory whose parent is null.              *)
C14_AsStated == \A d \in Dirs : ParentEnds(d, Len(inodes))

-----------------------------------------------------------------------------
(* A target that create_symlink_for_path refuses. *)
InvalidTarget(tgt) == includes(tgt, NUL) \/ startsWith(tgt, SLASH)

(* C15: in every state reached from a tree of the host, whose symlinks     *)
(* have targets without NUL and not beginning with '/', every Symlink has  *)
(* such a target; and path_symlink, which is create_symlink_for_path, with *)
(* a target that has a NUL or begins with '/' returns INVAL whatever the   *)
(* path is, absolute, ascending or neither, and changes nothing.           *)
C15_SymlinkTarget ==
  /\ [](\A s \in Symlinks : ~InvalidTarget(inodes[s].target))
  /\ [][(Idle /\ last'.op = "path_symlink" /\ InvalidTarget(last'.target))
         => (last'.ret = "INVAL" /\ inodes' = inodes)]_vars

(* C15 happens: path_symlink with a target that begins with '/' and a path *)
(* that Path.from refuses has returned INVAL.                              *)
C15_Witness ==
  /\ last.op = "path_symlink"
  /\ last.target = <<SLASH, 98>>
  /\ last.path = <<DOT, DOT>>
  /\ PathFrom(last.path).path = <<>>
  /\ PathFrom(last.path).ret # "INVAL"
  /\ last.ret = "INVAL"

-----------------------------------------------------------------------------
(* SpecShare: on the pre-open {a: File [1], d: {}} the caller links the    *)
(* file or the directory d under a second name, opens names, writes        *)
(* through a handle and reads through a handle, MaxShareCalls calls in     *)
(* all.                                                                    *)
ShareHeap ==
  <<NewFile(<<1>>, FALSE),
    [NewDirectory(<<>>) EXCEPT !.parent = 3],
    NewDirectory(<<Entry(<<97>>, 1), Entry(<<100>>, 2)>>)>>

InitShare ==
  /\ inodes = ShareHeap
  /\ preopen = 3
  /\ fds = <<>>
  /\ input = <<>>
  /\ last = NoCall
  /\ ncalls = MaxShareCalls
  /\ next_ino = CounterAfter(1, Len(inodes))
  /\ inos = IssuedInos(1, Len(inodes))
  /\ console = NoConsole

ShareNames == {<<97>>, <<98>>, <<100, SLASH, 98>>}

NextShare ==
  \/ \E path_str \in ShareNames, inode \in {1, 2}, allow_dir \in BOOLEAN :
       PathLink(preopen, path_str, inode, allow_dir)
  \/ \E path_str \in ShareNames : PathOpen(preopen, {}, path_str, {}, {}, {})
  \/ \E fd \in Handles, bytes \in {<<2>>, <<2, 3>>} : FdWrite(fd, bytes)
  \/ \E fd \in Handles : FdPread(fd, MaxOffset, 0)
  \/ Return

SpecShare == InitShare /\ [][NextShare]_vars

(* The parent and the name that the path of a path_link call resolves to. *)
LinkedAt(call) ==
  get_parent_dir_and_entry_for_path(call.dir, PathFrom(call.path).path[1], TRUE)

(* C16: after path_link(p, x, allowDirectory) has returned SUCCESS,        *)
(* resolving p without following a final symlink returns x itself, with    *)
(* its ino, and a Directory x has the directory that holds the name as     *)
(* parent; every directory entry that named x before the call names x      *)
(* after it; a handle that path_open returns for a name is on the inode    *)
(* that the name resolves to; and the bytes written through one handle are *)
(* read back through every handle on the same inode, whatever name it was  *)
(* opened by.                                                              *)
C16_SharedIdentity ==
  /\ []((last.op = "path_link" /\ last.ret = "SUCCESS")
          => /\ path_lookup(last.dir, last.path, {}).ret = "SUCCESS"
             /\ path_lookup(last.dir, last.path, {}).entry = last.inode
             /\ Len(inodes) = Len(ShareHeap)
             /\ inos[last.inode] = last.inode
             /\ inodes[last.inode].kind = "dir"
                  => inodes[last.inode].parent = LinkedAt(last).parent_entry)
  /\ [][(Idle /\ last'.op = "path_link" /\ last'.ret = "SUCCESS")
         => \A d \in Dirs : \A i \in 1..Len(inodes[d].contents) :
              inodes[d].contents[i].inode = last'.inode
                => MapGet(inodes'[d].contents, inodes[d].contents[i].name)
                     = last'.inode]_vars
  /\ []((last.op = "path_open" /\ last.ret = "SUCCESS")
          => last.entry = path_lookup(last.dir, last.path, {}).entry)
  /\ []((last.op = "fd_write" /\ last.ret = "SUCCESS")
          => \A g \in Handles :
               fds[g].file = fds[last.fd].file
                 => fd_pread(g, Len(last.data),
                             fds[last.fd].file_pos - Len(last.data)).data
                      = last.data)

(* C16 happens: the file a has been linked under the name b, opened by     *)
(* both names, and bytes have been written through the handle opened by    *)
(* one name and read through the handle opened by the other.               *)
C16_Witness ==
  /\ MapGet(inodes[preopen].contents, <<98>>) = 1
  /\ Len(fds) = 2
  /\ last.op = "fd_pread"
  /\ last.fd = 2
  /\ last.data = <<2, 3>>
  /\ fds[1].file_pos = 2
  /\ fds[2].file_pos = 0

-----------------------------------------------------------------------------
(* SpecDir: the calls that create, link and remove entries of a pre-open   *)
(* of the host, and fd_readdir_single on the OpenDirectory of any          *)
(* directory with the cookies 0 .. MaxCookie.                              *)
Readdir ==
  \E dir \in Dirs, cookie \in 0..MaxCookie : FdReaddirSingle(dir, cookie)

NextDir == Create \/ Link \/ Remove \/ Readdir \/ Return

(* The pre-opens of Init and the pre-open {a: File [1], b: File []}. *)
TwoFiles ==
  <<NewFile(<<1>>, FALSE), NewFile(<<>>, FALSE),
    NewDirectory(<<Entry(<<97>>, 1), Entry(<<98>>, 2)>>)>>

InitDir ==
  /\ \E p \in Preopens \cup {[heap |-> TwoFiles, dir |-> 3]} :
       inodes = p.heap /\ preopen = p.dir
  /\ fds = <<>>
  /\ input = <<>>
  /\ last = NoCall
  /\ ncalls = MaxCalls
  /\ next_ino = CounterAfter(1, Len(inodes))
  /\ inos = IssuedInos(1, Len(inodes))
  /\ console = NoConsole

SpecDir == InitDir /\ [][NextDir]_vars

(* The entries that fd_readdir_single yields when each call is given the   *)
(* next-cookie of the call before, from `cookie`, for at most n calls.     *)
RECURSIVE Enumerate(_, _, _)
EnumerateFrom(dir, r, n) ==
  IF r.dirent = <<>> THEN <<>>
  ELSE r.dirent \o Enumerate(dir, r.dirent[1].d_next, n - 1)

Enumerate(dir, cookie, n) ==
  IF n = 0 THEN <<>> ELSE EnumerateFrom(dir, fd_readdir_single(dir, cookie), n)

(* The names of a directory in the order of its contents. *)
Names(m) == [i \in 1..Len(m) |-> m[i].name]

(* One sequence is the other without one of its elements. *)
Without(long, short) ==
  \E k \in 1..Len(long) :
    short = SubSeq(long, 1, k - 1) \o SubSeq(long, k + 1, Len(long))

(* C17: for every directory, in every state, the calls of                  *)
(* fd_readdir_single from cookie 0, each with the next-cookie of the one   *)
(* before, yield '.', then '..', then every entry of contents once, in     *)
(* the order of contents, with the ino and the file type of the entry ('.' *)
(* with those of the directory), each with next-cookie = cookie + 1, and   *)
(* every cookie >= size + 2 yields SUCCESS without an entry; the order of  *)
(* contents is the insertion order: a call appends a name, removes a name  *)
(* or leaves the names where they are, an overwriting link included; and   *)
(* fd_readdir_single changes no directory.                                 *)
C17_Enumeration ==
  /\ [](\A d \in Dirs :
          /\ Len(Enumerate(d, 0, MaxCookie + 2)) = Len(inodes[d].contents) + 2
          /\ \A c \in 1..(Len(inodes[d].contents) + 2) :
               /\ Enumerate(d, 0, MaxCookie + 2)[c].d_next = c
               /\ Enumerate(d, 0, MaxCookie + 2)[c]
                    = fd_readdir_single(d, c - 1).dirent[1]
          /\ Enumerate(d, 0, MaxCookie + 2)[1].name = <<DOT>>
          /\ Enumerate(d, 0, MaxCookie + 2)[1].d_type = "dir"
          /\ Enumerate(d, 0, MaxCookie + 2)[1].d_ino = inos[d]
          /\ Enumerate(d, 0, MaxCookie + 2)[2].name = <<DOT, DOT>>
          /\ Enumerate(d, 0, MaxCookie + 2)[2].d_type = "dir"
          /\ \A i \in 1..Len(inodes[d].contents) :
               /\ Enumerate(d, 0, MaxCookie + 2)[i + 2].name
                    = inodes[d].contents[i].name
               /\ Enumerate(d, 0, MaxCookie + 2)[i + 2].d_ino
                    = inos[inodes[d].contents[i].inode]
               /\ Enumerate(d, 0, MaxCookie + 2)[i + 2].d_type
                    = inodes[inodes[d].contents[i].inode].kind
          /\ \A i, j \in 1..Len(inodes[d].contents) :
               i # j => inodes[d].contents[i].name # inodes[d].contents[j].name
          /\ \A c \in (Len(inodes[d].contents) + 2)..(MaxCookie + 1) :
               fd_readdir_single(d, c) = [ret |-> "SUCCESS", dirent |-> <<>>])
  /\ [][\A d \in Dirs :
          \/ Names(inodes'[d].contents) = Names(inodes[d].contents)
          \/ /\ Len(inodes'[d].contents) = Len(inodes[d].contents) + 1
             /\ SubSeq(Names(inodes'[d].contents), 1, Len(inodes[d].contents))
                  = Names(inodes[d].contents)
          \/ Without(Names(inodes[d].contents), Names(inodes'[d].contents))]_vars
  /\ [][(Idle /\ last'.op = "fd_readdir_single")
         => /\ inodes' = inodes
            /\ last'.ret = "SUCCESS"
            /\ last'.out = IF last'.offset >= Len(inodes[last'.dir].contents) + 2
                             THEN <<>>
                             ELSE <<Enumerate(last'.dir, 0, MaxCookie + 2)
                                      [last'.offset + 1]>>]_vars

(* C17 happens: in the directory {a, b} the entry a has been replaced by   *)
(* an overwriting link of the file b, and the directory has been read at   *)
(* cookie 2: it yields a, with the ino of the linked file, before b.       *)
C17_Witness ==
  /\ last.op = "fd_readdir_single"
  /\ last.offset = 2
  /\ last.dir = preopen
  /\ Len(inodes) = 3
  /\ inodes[preopen].contents = <<Entry(<<97>>, 2), Entry(<<98>>, 2)>>
  /\ last.out = Dirent(3, inos[2], <<97>>, "file")

-----------------------------------------------------------------------------
(* C18, as stated: fd_readdir_single with cookie 1 yields '..' with the    *)
(* ino of the parent of the directory, and for a directory without parent  *)
(* with the ino of the directory itself, which is the ino that cookie 0    *)
(* yields for '.' and that fd_filestat_get reports.                        *)
C18_AsStated ==
  (last.op = "fd_readdir_single" /\ last.offset = 1)
    => /\ last.out # <<>>
       /\ last.out[1].name = <<DOT, DOT>>
       /\ inodes[last.dir].parent # 0
            => last.out[1].d_ino = inos[inodes[last.dir].parent]
       /\ inodes[last.dir].parent = 0
            => /\ last.out[1].d_ino = inos[last.dir]
               /\ last.out[1].d_ino = fd_readdir_single(last.dir, 0).dirent[1].d_ino
               /\ last.out[1].d_ino
                    = OpenDirectory_fd_filestat_get(last.dir).filestat.ino

-----------------------------------------------------------------------------
(* SpecConsole: MaxWrites chunks of at most two bytes are written to a     *)
(* ConsoleStdout made by lineBuffered.  The bytes are "\n", "a" and the    *)
(* two bytes of U+00E9, which a chunk may bring apart or alone.            *)
ConsoleBytes == {LF, 97, 195, 169}

ConsoleChunks ==
  {<<>>} \cup {<<b>> : b \in ConsoleBytes}
         \cup {<<b, c>> : b \in ConsoleBytes, c \in ConsoleBytes}

InitConsole ==
  /\ inodes = EmptyPreopen
  /\ preopen = 1
  /\ fds = <<>>
  /\ input = <<>>
  /\ last = NoCall
  /\ ncalls = MaxWrites
  /\ inos = IssuedInos(1, Len(inodes))
  /\ console = [NoConsole EXCEPT !.ino = issue_ino(CounterAfter(1, Len(inodes))).ino]
  /\ next_ino = issue_ino(CounterAfter(1, Len(inodes))).next_ino

NextConsole ==
  \/ \E buffer \in ConsoleChunks : ConsoleFdWrite(buffer)
  \/ Return

SpecConsole == InitConsole /\ [][NextConsole]_vars

(* The lines, each followed by a newline. *)
RECURSIVE Terminated(_)
Terminated(lines) ==
  IF lines = <<>> THEN <<>>
  ELSE lines[1] \o <<LF>> \o Terminated(Tail(lines))

(* The number of newlines of a text. *)
Newlines(s) == Cardinality({i \in 1..Len(s) : s[i] = LF})

(* C19: whatever the chunks, the lines that the callback has received,     *)
(* each followed by a newline, and then the retained line_buf are the      *)
(* decoded text of all the bytes written; there is one line for every      *)
(* newline written, no line and no line_buf holds a newline; and a write   *)
(* keeps the lines delivered before it and adds one line for every newline *)
(* of its chunk.                                                           *)
C19_LineBuffered ==
  /\ [](/\ Terminated(console.lines) \o console.line_buf
             = decode(<<>>, console.bytes).text
        /\ console.pending = decode(<<>>, console.bytes).pending
        /\ Len(console.lines) = Newlines(console.bytes)
        /\ \A i \in 1..Len(console.lines) : ~includes(console.lines[i], LF)
        /\ ~includes(console.line_buf, LF))
  /\ [][/\ SubSeq(console'.lines, 1, Len(console.lines)) = console.lines
        /\ Len(console'.lines) = Len(console.lines) + Newlines(last'.data)]_vars

(* C19 happens: the two bytes of U+00E9 have come in two chunks, the       *)
(* second one with the newline; the line is delivered whole.               *)
C19_Witness ==
  /\ console.bytes = <<97, 195, 169, LF>>
  /\ last.data = <<169, LF>>
  /\ console.lines = <<<<97, 233>>>>
  /\ console.line_buf = <<>>

-----------------------------------------------------------------------------
(* The components and the trailing-slash flag of the path of the last      *)
(* call, and the entry of the pre-open that the first component names.     *)
LastParts == PathFrom(last.path).path[1].parts
LastIsDir == PathFrom(last.path).path[1].is_dir
LastHead == MapGet(inodes[preopen].contents, LastParts[1])

(* C20: a path whose last component names a symlink, the head of a chain   *)
(* of at most 40 symlinks, resolves to the symlink itself, with SUCCESS,   *)
(* when neither followFinal nor the trailing-slash flag is set; when one   *)
(* of them is set it resolves to the inode at the end of the chain, which  *)
(* is not a symlink, and fails with NOTDIR exactly when the trailing-slash *)
(* flag is set and that inode is not a directory.  A symlink named by a    *)
(* component that is not the last one is followed whatever the flags: the  *)
(* rest is resolved in the directory at the end of the chain, and the call *)
(* fails with NOTDIR when the chain ends at a regular file.                *)
C20_FinalSymlink ==
  (/\ last.op = "path_filestat_get"
   /\ PathFrom(last.path).path # <<>>
   /\ Len(LastParts) >= 1
   /\ ChainLength(LastParts[1]) >= 1
   /\ ChainLength(LastParts[1]) <= SYMLOOP_MAX)
    => /\ (Len(LastParts) = 1 /\ "SYMLINK_FOLLOW" \notin last.flags /\ ~LastIsDir)
            => /\ last.ret = "SUCCESS"
               /\ last.entry = LastHead
               /\ inodes[last.entry].kind = "symlink"
       /\ (Len(LastParts) = 1 /\ ("SYMLINK_FOLLOW" \in last.flags \/ LastIsDir))
            => IF LastIsDir /\ inodes[ChainEnd(LastParts[1])].kind # "dir"
                 THEN last.ret = "NOTDIR" /\ last.entry = 0
                 ELSE /\ last.ret = "SUCCESS"
                      /\ last.entry = ChainEnd(LastParts[1])
                      /\ inodes[last.entry].kind # "symlink"
       /\ Len(LastParts) = 2
            => IF inodes[ChainEnd(LastParts[1])].kind = "dir"
                 THEN /\ last.ret = "SUCCESS"
                      /\ last.entry = MapGet(inodes[ChainEnd(LastParts[1])].contents,
                                             LastParts[2])
                 ELSE last.ret = "NOTDIR" /\ last.entry = 0

(* C20 happens: the head of a chain of several symlinks that ends at the   *)
(* directory d has been resolved with a trailing slash and without the     *)
(* follow flag, and the call has returned d.                               *)
C20_Witness ==
  /\ last.op = "path_filestat_get"
  /\ "SYMLINK_FOLLOW" \notin last.flags
  /\ endsWith(last.path, SLASH)
  /\ ChainLength(LastParts[1]) >= 2
  /\ last.ret = "SUCCESS"
  /\ last.entry = 3
  /\ inodes[last.entry].kind = "dir"

-----------------------------------------------------------------------------
(* The parent, the name and the entry, 0 when the name is free, that the   *)
(* path of a call names before the call: the parent prefix is resolved     *)
(* following symlinks, the name is looked up in the parent's contents.     *)
NamedAt(call) ==
  get_parent_dir_and_entry_for_path(call.dir, PathFrom(call.path).path[1], TRUE)

(* C21: path_unlink_file on a path whose parent prefix resolves fails with *)
(* NOENT when the name is absent, with ISDIR when the entry is a           *)
(* directory, with NOTDIR when the path ends with '/' and the entry is not *)
(* a directory, and changes nothing in these cases; otherwise it returns   *)
(* SUCCESS and the only change is that the name is removed from the        *)
(* parent: when the entry is a symlink, the symlink's target and every     *)
(* other entry stay in place.                                              *)
C21_UnlinkFile ==
  [][(/\ Idle
      /\ last'.op = "path_unlink_file"
      /\ PathFrom(last'.path).path # <<>>
      /\ NamedAt(last').parent_entry # 0)
      => IF NamedAt(last').entry = 0
           THEN last'.ret = "NOENT" /\ inodes' = inodes
         ELSE IF inodes[NamedAt(last').entry].kind = "dir"
           THEN last'.ret = "ISDIR" /\ inodes' = inodes
         ELSE IF PathFrom(last'.path).path[1].is_dir
           THEN last'.ret = "NOTDIR" /\ inodes' = inodes
         ELSE /\ last'.ret = "SUCCESS"
              /\ inodes' = [inodes EXCEPT ![NamedAt(last').parent_entry].contents =
                              SelectSeq(@, LAMBDA e : e.name # NamedAt(last').filename)]
              /\ inodes'[NamedAt(last').entry] = inodes[NamedAt(last').entry]]_vars

(* C21 happens: in the tree {a: {b: File}, b: Symlink "a"} the symlink b   *)
(* has been unlinked; the directory a that it points to is in place.       *)
C21_Witness ==
  /\ last.op = "path_unlink_file"
  /\ last.ret = "SUCCESS"
  /\ last.path = <<98>>
  /\ Len(inodes) = 4
  /\ inodes[3].kind = "symlink"
  /\ inodes[3].target = <<97>>
  /\ inodes[preopen].contents = <<Entry(<<97>>, 2)>>
  /\ inodes[2].contents = <<Entry(<<98>>, 1)>>

-----------------------------------------------------------------------------
(* C22: create_symlink_for_path, called by path_symlink with a valid       *)
(* target and a path whose parent prefix resolves: when the path ends with *)
(* '/' it fails with NOENT if the name is free, with EXIST if the name     *)
(* holds a directory and with NOTDIR if it holds anything else, and the    *)
(* tree is unchanged; when the path does not end with '/' it fails with    *)
(* EXIST if the name is occupied, and otherwise it returns SUCCESS, one    *)
(* Symlink with the given target is constructed and entered under the name *)
(* at the end of the parent's contents, and nothing else changes.          *)
C22_CreateSymlink ==
  [][(/\ Idle
      /\ last'.op = "path_symlink"
      /\ ~InvalidTarget(last'.target)
      /\ PathFrom(last'.path).path # <<>>
      /\ NamedAt(last').parent_entry # 0)
      => IF PathFrom(last'.path).path[1].is_dir
           THEN /\ inodes' = inodes
                /\ last'.ret = IF NamedAt(last').entry = 0 THEN "NOENT"
                               ELSE IF inodes[NamedAt(last').entry].kind = "dir"
                                 THEN "EXIST"
                               ELSE "NOTDIR"
         ELSE IF NamedAt(last').entry # 0
           THEN last'.ret = "EXIST" /\ inodes' = inodes
         ELSE /\ last'.ret = "SUCCESS"
              /\ Len(inodes') = Len(inodes) + 1
              /\ inodes'[Len(inodes')] = NewSymlink(last'.target)
              /\ SubSeq(inodes', 1, Len(inodes))
                   = [inodes EXCEPT ![NamedAt(last').parent_entry].contents =
                        Append(@, Entry(NamedAt(last').filename, Len(inodes) + 1))]]_vars

(* C22 happens: path_symlink with the path "b/" on the tree {a: File},     *)
(* where the name b is free, has failed with NOENT and created nothing.    *)
C22_Witness ==
  /\ last.op = "path_symlink"
  /\ last.path = <<98, SLASH>>
  /\ last.target = <<97>>
  /\ last.ret = "NOENT"
  /\ Len(inodes) = 2
  /\ Symlinks = {}
  /\ inodes[preopen].contents = <<Entry(<<97>>, 1)>>

-----------------------------------------------------------------------------
(* C23, as stated: path_open with a path that ends with '/' never returns  *)
(* SUCCESS with a handle on an inode that is not a directory, and never    *)
(* constructs a regular File, whatever the open flags.                     *)
C23_AsStated ==
  [][(Idle /\ last'.op = "path_open" /\ endsWith(last'.path, SLASH))
      => /\ last'.ret = "SUCCESS"
              => /\ last'.out # <<>>
                 /\ last'.out[1].class = "OpenDirectory"
                 /\ inodes'[last'.out[1].inode].kind = "dir"
         /\ \A i \in (Len(inodes) + 1)..Len(inodes') : inodes'[i].kind # "file"]_vars

-----------------------------------------------------------------------------
(* C24, as stated: path_create_directory on a path whose parent prefix     *)
(* resolves fails with EXIST and changes nothing when the name holds an    *)
(* entry; and when it returns SUCCESS it has constructed one empty         *)
(* directory and entered it under the name at the end of the parent's      *)
(* contents, nothing else changed.                                         *)
C24_AsStated ==
  [][(/\ Idle
      /\ last'.op = "path_create_directory"
      /\ PathFrom(last'.path).path # <<>>
      /\ NamedAt(last').parent_entry # 0)
      => /\ NamedAt(last').entry # 0
              => last'.ret = "EXIST" /\ inodes' = inodes
         /\ last'.ret = "SUCCESS"
              => /\ Len(inodes') = Len(inodes) + 1
                 /\ inodes'[Len(inodes')]
                      = [NewDirectory(<<>>) EXCEPT
                           !.parent = NamedAt(last').parent_entry]
                 /\ SubSeq(inodes', 1, Len(inodes))
                      = [inodes EXCEPT ![NamedAt(last').parent_entry].contents =
                           Append(@, Entry(NamedAt(last').filename,
                                           Len(inodes) + 1))]]_vars

-----------------------------------------------------------------------------
(* The offset that an fd_seek call, made now with the arguments of `call`, *)
(* computes: the delta from 0, from the seek offset or from the length of  *)
(* the file.                                                               *)
SeekTarget(call) ==
  IF "SET" \in call.flags THEN call.offset
  ELSE IF "CUR" \in call.flags THEN fds[call.fd].file_pos + call.offset
  ELSE Len(inodes[fds[call.fd].file].data) + call.offset

(* C25: the seek offset of an OpenFile is never negative; fd_seek with an  *)
(* unknown whence or a negative computed offset returns INVAL and leaves   *)
(* the offset where it was; otherwise it returns SUCCESS and the computed  *)
(* offset, which becomes the seek offset, beyond the end of the file too;  *)
(* fd_seek never changes the file; fd_pread and fd_pwrite never change the *)
(* seek offset.                                                            *)
C25_SeekOffset ==
  /\ [](\A fd \in Handles : fds[fd].file_pos >= 0)
  /\ [][(Idle /\ last'.op = "fd_seek")
         => /\ inodes' = inodes
            /\ IF last'.flags \cap {"SET", "CUR", "END"} = {} \/ SeekTarget(last') < 0
                 THEN last'.ret = "INVAL" /\ fds' = fds
                 ELSE /\ last'.ret = "SUCCESS"
                      /\ last'.size = SeekTarget(last')
                      /\ fds' = [fds EXCEPT ![last'.fd].file_pos = SeekTarget(last')]]_vars
  /\ [][(Idle /\ last'.op \in {"fd_pread", "fd_pwrite"}) => fds' = fds]_vars

(* C25 happens: the seek offset is 2, beyond the end of a file of one      *)
(* byte, and fd_seek from the end with the delta -2 has failed with INVAL. *)
C25_Witness ==
  /\ last.op = "fd_seek"
  /\ last.flags = {"END"}
  /\ last.offset = 0 - 2
  /\ last.ret = "INVAL"
  /\ Len(inodes[1].data) = 1
  /\ fds[1].file_pos = 2

-----------------------------------------------------------------------------
(* The bytes [from, min(from + size, L)) of a file of length L. *)
Clamped(data, from, size) ==
  [i \in 1..(IF from >= Len(data) THEN 0
             ELSE IF from + size <= Len(data) THEN size
             ELSE Len(data) - from) |-> data[from + i]]

(* C26: fd_read(size) at the seek offset p returns SUCCESS with the bytes  *)
(* [p, min(p + size, L)) of the file, none when p >= L, advances the seek  *)
(* offset by the number of bytes returned, and leaves the file as it is;   *)
(* fd_pread(size, o) returns SUCCESS with the bytes [o, min(o + size, L))  *)
(* and leaves the file and the seek offset as they are.                    *)
C26_ReadsClamp ==
  /\ [][(Idle /\ last'.op = "fd_read")
         => /\ last'.ret = "SUCCESS"
            /\ last'.data = Clamped(inodes[fds[last'.fd].file].data,
                                    fds[last'.fd].file_pos, last'.size)
            /\ fds' = [fds EXCEPT ![last'.fd].file_pos = @ + Len(last'.data)]
            /\ inodes' = inodes]_vars
  /\ [][(Idle /\ last'.op = "fd_pread")
         => /\ last'.ret = "SUCCESS"
            /\ last'.data = Clamped(inodes[fds[last'.fd].file].data,
                                    last'.offset, last'.size)
            /\ fds' = fds
            /\ inodes' = inodes]_vars

(* C26 happens: fd_read of two bytes at the seek offset 1 of a file of two *)
(* bytes has returned one byte and moved the seek offset to 2.             *)
C26_Witness ==
  /\ last.op = "fd_read"
  /\ last.size = 2
  /\ last.data = <<1>>
  /\ Len(inodes[1].data) = 2
  /\ fds[1].file_pos = 2

-----------------------------------------------------------------------------
(* SpecLoop: a pre-open that the host constructs with the symlinks         *)
(* s -> "s", a -> "b", b -> "a", t -> "t/x" and the empty directory d; the *)
(* calls link a directory at "d/d" or "d/a" and look paths up from every   *)
(* directory.                                                              *)
LoopHeap ==
  <<NewSymlink(<<115>>), NewSymlink(<<98>>), NewSymlink(<<97>>),
    NewSymlink(<<116, SLASH, 120>>),
    [NewDirectory(<<>>) EXCEPT !.parent = 6],
    NewDirectory(<<Entry(<<115>>, 1), Entry(<<97>>, 2), Entry(<<98>>, 3),
                   Entry(<<116>>, 4), Entry(<<100>>, 5)>>)>>

InitLoop ==
  /\ inodes = LoopHeap
  /\ preopen = 6
  /\ fds = <<>>
  /\ input = <<>>
  /\ last = NoCall
  /\ ncalls = MaxCalls
  /\ next_ino = CounterAfter(1, Len(inodes))
  /\ inos = IssuedInos(1, Len(inodes))
  /\ console = NoConsole

(* "s", "a", "b", "t", "s/", "a/b", "t/x", "x", "d", "d/d", "d/d/d",       *)
(* "d/d/s", "d/d/a", "d/a", "d/a/a", "d/d/t/x".                            *)
LoopPaths ==
  {<<115>>, <<97>>, <<98>>, <<116>>, <<115, SLASH>>, <<97, SLASH, 98>>,
   <<116, SLASH, 120>>, <<120>>, <<100>>, <<100, SLASH, 100>>,
   <<100, SLASH, 100, SLASH, 100>>, <<100, SLASH, 100, SLASH, 115>>,
   <<100, SLASH, 100, SLASH, 97>>, <<100, SLASH, 97>>,
   <<100, SLASH, 97, SLASH, 97>>,
   <<100, SLASH, 100, SLASH, 116, SLASH, 120>>}

LoopLinks == {<<100, SLASH, 100>>, <<100, SLASH, 97>>}

NextLoop ==
  \/ \E path_str \in LoopLinks, inode \in Dirs :
       PathLink(preopen, path_str, inode, TRUE)
  \/ \E dir \in Dirs, path_str \in LoopPaths, flags \in LookupFlags :
       PathLookup(dir, path_str, flags)
  \/ \E dir \in Dirs, path_str \in LoopPaths, flags \in LookupFlags :
       PathFilestatGet(dir, flags, path_str)
  \/ Return

SpecLoop == InitLoop /\ [][NextLoop]_vars

(* The activations of resolve_path_from counted: steps is the number of    *)
(* activations, hops the largest depth of one, which is the number of      *)
(* symlinks followed.  The count stops after StepBound activations.        *)
StepBound == (SYMLOOP_MAX + 1) * (SYMLOOP_MAX + 1)

Counting(c) == [c |-> c, steps |-> 0, hops |-> 0]

count_next(t, followFinal) ==
  IF t.c.done \/ t.steps >= StepBound THEN t
  ELSE [c |-> resolve_call(t.c, followFinal), steps |-> t.steps + 1,
        hops |-> IF t.c.depth > t.hops THEN t.c.depth ELSE t.hops]

RECURSIVE resolve_count(_, _)
resolve_count(t, followFinal) ==
  IF t.c.done \/ t.steps >= StepBound
    THEN [done |-> t.c.done, steps |-> t.steps, hops |-> t.hops,
          ret |-> t.c.ret, entry |-> t.c.entry]
  ELSE resolve_count(count_next(count_next(count_next(count_next(
                       t, followFinal), followFinal), followFinal), followFinal),
                     followFinal)

Errnos == {"NOENT", "NOTDIR", "LOOP", "INVAL", "NOTCAPABLE"}

(* A resolution that returned, failed closed, and followed at most         *)
(* SYMLOOP_MAX symlinks; r is what resolve_path returns for it.            *)
Closed(t, r) ==
  /\ t.done
  /\ t.steps <= StepBound
  /\ t.hops <= SYMLOOP_MAX
  /\ r = [ret |-> t.ret, entry |-> t.entry]
  /\ \/ t.ret = "SUCCESS" /\ t.entry \in Allocated
     \/ t.ret \in Errnos /\ t.entry = 0
  /\ t.ret = "LOOP" => t.hops = SYMLOOP_MAX

Counted(dir, path, followFinal) ==
  Closed(resolve_count(Counting(Recurse(dir, path.parts, path.is_dir, 0)),
                       followFinal),
         resolve_path(dir, path, followFinal))

(* The paths of the pre-open that lead into a symlink cycle when the final *)
(* symlink is followed.                                                    *)
Endless ==
  {<<115>>, <<97>>, <<98>>, <<116>>, <<115, SLASH>>, <<97, SLASH, 98>>,
   <<116, SLASH, 120>>}

(* C27: in every reachable tree, the trees with symlink cycles and with    *)
(* contents cycles included, the resolution of every path from every       *)
(* directory returns after at most StepBound activations with SUCCESS and  *)
(* an inode or with an error and no inode, having followed at most 40      *)
(* symlinks; the paths that lead into a symlink cycle return LOOP; and     *)
(* the lookup calls return what the resolution returns.                    *)
C27_Terminates ==
  /\ (last.op = "path_filestat_get" \/ (last.op = "path_lookup" /\ last.flags = {}))
       => /\ Counted(last.dir, PathFrom(last.path).path[1],
                     "SYMLINK_FOLLOW" \in last.flags)
          /\ resolve_path(last.dir, PathFrom(last.path).path[1],
                          "SYMLINK_FOLLOW" \in last.flags)
               = [ret |-> last.ret, entry |-> last.entry]
  /\ (last.op = "path_filestat_get" /\ last.dir = preopen
        /\ last.path \in Endless /\ "SYMLINK_FOLLOW" \in last.flags)
       => last.ret = "LOOP"

(* C27 happens: the pre-open is linked at "d/d", a contents cycle, and the *)
(* lookup of "d/d/a", which leads through the cycle into a -> b -> a, has  *)
(* returned LOOP.                                                          *)
C27_Witness ==
  /\ MapGet(inodes[5].contents, <<100>>) = preopen
  /\ last.op = "path_filestat_get"
  /\ last.path = <<100, SLASH, 100, SLASH, 97>>
  /\ last.flags = {"SYMLINK_FOLLOW"}
  /\ last.ret = "LOOP"

-----------------------------------------------------------------------------
(* The directory D is contained, directly or transitively, in its own      *)
(* contents.                                                               *)
InOwnContents(D) ==
  \E i \in 1..Len(inodes[D].contents) : D \in Reach(inodes[D].contents[i].inode)

(* A path_link call that links the directory call.inode, with allow_dir,   *)
(* under the free name g.filename of g.parent_entry, which is the          *)
(* directory itself or one of its descendants.                             *)
LinksIntoItself(call, g) ==
  /\ call.op = "path_link"
  /\ call.flags = {"allow_dir"}
  /\ inodes[call.inode].kind = "dir"
  /\ PathFrom(call.path).path # <<>>
  /\ ~PathFrom(call.path).path[1].is_dir
  /\ g.parent_entry # 0
  /\ g.filename # <<>>
  /\ g.entry = 0
  /\ g.parent_entry \in Reach(call.inode)

(* C28: path_link with allow_dir of a directory D under a free name of D   *)
(* or of a descendant of D returns SUCCESS; the name is added to that      *)
(* directory, which becomes the parent of D, and D is then contained in    *)
(* its own contents; and in every tree with such a cycle each lookup       *)
(* returns SUCCESS with an inode or an error without one.                  *)
C28_LinkIntoItself ==
  /\ [][(Idle /\ PathFrom(last'.path).path # <<>>
              /\ LinksIntoItself(last', NamedAt(last')))
         => /\ last'.ret = "SUCCESS"
            /\ inodes' = [inodes EXCEPT
                 ![last'.inode].parent = NamedAt(last').parent_entry,
                 ![NamedAt(last').parent_entry].contents =
                    Append(@, [name |-> NamedAt(last').filename,
                               inode |-> last'.inode])]]_vars
  /\ []((last.op = "path_link" /\ last.ret = "SUCCESS"
          /\ inodes[last.inode].kind = "dir"
          /\ inodes[last.inode].parent \in Reach(last.inode))
         => InOwnContents(last.inode))
  /\ []((last.op \in {"path_lookup", "path_filestat_get"}
          /\ \E D \in Dirs : InOwnContents(D))
         => \/ last.ret = "SUCCESS" /\ last.entry \in Allocated
            \/ last.ret \in Errnos /\ last.entry = 0)

(* C28 happens: the directory d is linked at "d/d", inside itself, and the *)
(* lookup of "d/d/d", three times through the cycle, has returned d.       *)
C28_Witness ==
  /\ MapGet(inodes[5].contents, <<100>>) = 5
  /\ inodes[5].parent = 5
  /\ InOwnContents(5)
  /\ last.op = "path_lookup"
  /\ last.path = <<100, SLASH, 100, SLASH, 100>>
  /\ last.ret = "SUCCESS"
  /\ last.entry = 5

====
